---- MODULE Spec2Model ----
(***************************************************************************)
(* Model of the "Find It!" content core: the runtime emoji database with   *)
(* its lookup maps (lib/emoji-data.ts), the local content generator, the   *)
(* corrector and generateGameContent (lib/game-content.ts, kept in         *)
(* src/lib/audio.ts from line 273 on), the response schema (lib/schema.ts) *)
(* and the topic sessions (lib/topics/index.ts, lib/topics/session.ts);    *)
(* the offline build of the database (scripts/generate-emoji-data.ts); and *)
(* the client components that play a round: GameClient, Home and           *)
(* TopicSession.                                                           *)
(*                                                                         *)
(* A JavaScript string is modelled by a record: its text (base) and three  *)
(* flags saying whether it carries a variation selector (U+FE0E/U+FE0F),   *)
(* upper-case letters, or surrounding white space.  normalizeEmoji,        *)
(* toLowerCase and trim clear the respective flag, so that two strings are *)
(* equal after a conversion exactly when they differ only in what the      *)
(* conversion removes.                                                     *)
(***************************************************************************)
EXTENDS Integers, Sequences, FiniteSets, TLC

VARIABLES
    db,           \* EMOJI_DATABASE: sequence of [category, items]
    nameToEmoji,      \* Map name -> emoji
    keywordToEmoji,   \* Map keyword -> emoji
    emojiToNames,     \* Map emoji key -> names
    emojiToCategory,  \* Map emoji key -> category
    categoryToItems,  \* Map category -> items
    pc,           \* position of the generateGameContent call
    word,         \* its argument
    localContent, \* what generateLocalContent returned (NoContent = null)
    llmInvoked,   \* generateText was called during this request
    response,     \* the object the service answered with (NoContent = none)
    output,       \* schema-validated output of the service (NoContent = none)
    failure,      \* how the service call failed ("none" if it did not)
    ret,          \* value the promise resolved to (NoContent = null)
    threw,        \* an exception left generateGameContent
    topics,       \* TOPICS: sequence of [id, words]
    sessionPc,    \* position of the generateTopicSession call
    topicId,      \* its first argument
    sessionLength,\* its second argument
    session,      \* what it returned (NoContent = null)
    buildPc,      \* position of main in the build script
    sourceEntries,\* the entries parsed from the symbol test list
    localeData,   \* the annotations parsed for each locale
    result,       \* what buildEmojiDatabase returned (NoContent = nothing yet)
    outputFile,   \* the generated file (NoContent = not written)
    exitCode,     \* process.exitCode
    gameClient,   \* state of the mounted GameClient (NoContent = not mounted)
    home,         \* state of the mounted Home (NoContent = not mounted)
    topicPlay     \* state of the mounted TopicSession (NoContent = not mounted)

\* the database and the lookup maps built from it when the module is loaded
maps == <<db, nameToEmoji, keywordToEmoji, emojiToNames, emojiToCategory,
          categoryToItems>>

\* the state of a generateGameContent call
request == <<pc, word, localContent, llmInvoked, response, output, failure,
             ret, threw>>

\* the topics and the state of a generateTopicSession call
topicSession == <<topics, sessionPc, topicId, sessionLength, session>>

\* the state of a run of the build script
pipeline == <<buildPc, sourceEntries, localeData, result, outputFile, exitCode>>

\* the client components; one page is mounted at a time
screens == <<gameClient, home, topicPlay>>

vars == <<maps, request, topicSession, pipeline, screens>>

-----------------------------------------------------------------------------
(* Bounds *)

\* number of items of the "animals" category whose names vary over NameLists
NumAnimals == 3

\* largest session length generateTopicSession is called with
MaxSessionLength == 2

\* largest number of keywords the annotations give a symbol out of
\* FreeKeywords
MaxKeywords == 1

-----------------------------------------------------------------------------
(* Strings *)

Str(b) == [base |-> b, vs |-> FALSE, caps |-> FALSE, pad |-> FALSE]
WithVS(s) == [s EXCEPT !.vs = TRUE]
Caps(s) == [s EXCEPT !.caps = TRUE]
Padded(s) == [s EXCEPT !.pad = TRUE]

toLowerCase(s) == [s EXCEPT !.caps = FALSE]
trim(s) == [s EXCEPT !.pad = FALSE]

\* null / undefined
NoContent == [null |-> TRUE]
Undefined == [undefined |-> TRUE]

Min(a, b) == IF a <= b THEN a ELSE b
SeqToSet(s) == {s[i] : i \in DOMAIN s}

\* the concatenation of the sequences of ss, in order
RECURSIVE Flatten(_)
Flatten(ss) ==
    IF ss = <<>> THEN <<>>
    ELSE IF Len(ss) = 1 THEN ss[1]
    ELSE Flatten(SubSeq(ss, 1, Len(ss) \div 2))
         \o Flatten(SubSeq(ss, Len(ss) \div 2 + 1, Len(ss)))

\* Array.prototype.filter
Filter(s, Test(_)) == SelectSeq(s, Test)

\* [...new Set(s)]: first occurrences, in order
Dedup(s) ==
    LET firsts == SelectSeq([i \in DOMAIN s |-> i],
                            LAMBDA i : \A j \in 1..(i - 1) : s[j] # s[i])
    IN [k \in DOMAIN firsts |-> s[firsts[k]]]

\* shuffle(s).slice(0, n): the possible results, shuffle being any permutation
ShuffleTake(s, n) ==
    LET m == Min(n, Len(s))
    IN { [i \in 1..m |-> s[f[i]]] :
           f \in {g \in [1..m -> DOMAIN s] :
                    \A i, j \in 1..m : i # j => g[i] # g[j]} }

-----------------------------------------------------------------------------
(* lib/emoji-data.ts *)

normalizeEmoji(emoji) == [emoji EXCEPT !.vs = FALSE]
normalizeName(name) == trim(toLowerCase(name))

\* "" is falsy
IsEmptyString(s) == s.base = "" /\ ~s.vs

DOG_FACE == Str("U+1F436")
NAME_OVERRIDES == [puppy |-> DOG_FACE]

Item(e, ns, ks) == [emoji |-> e, names |-> ns, keywords |-> ks]

\* index of the first element of s satisfying P (0 if none)
FirstIndex(s, P(_)) ==
    IF \E i \in DOMAIN s : P(s[i])
    THEN CHOOSE i \in DOMAIN s : P(s[i]) /\ \A j \in 1..(i - 1) : ~P(s[j])
    ELSE 0

\* The lookup maps are built once, when the module is loaded, by the three
\* forEach loops over EMOJI_DATABASE; the operators below give the maps these
\* loops leave behind for the database d.

\* allItems with the category each item was listed under
allEntriesOf(d) ==
    Flatten([c \in DOMAIN d |->
        [i \in DOMAIN d[c].items |->
            [category |-> d[c].category, item |-> d[c].items[i]]]])

allItemsOf(d) ==
    LET entries == allEntriesOf(d)
    IN [i \in DOMAIN entries |-> entries[i].item]

\* Map emoji key -> names of the first item with that key
BuildEmojiToNames(d) ==
    LET items == allItemsOf(d)
    IN [k \in {normalizeEmoji(it.emoji) : it \in SeqToSet(items)} |->
          items[FirstIndex(items, LAMBDA it : normalizeEmoji(it.emoji) = k)].names]

\* Map emoji key -> category of the first item with that key
BuildEmojiToCategory(d) ==
    LET entries == allEntriesOf(d)
    IN [k \in {normalizeEmoji(en.item.emoji) : en \in SeqToSet(entries)} |->
          entries[FirstIndex(entries,
                     LAMBDA en : normalizeEmoji(en.item.emoji) = k)].category]

\* Map category -> items (a later set() of the same key replaces the earlier)
BuildCategoryToItems(d) ==
    [c \in {d[i].category : i \in DOMAIN d} |->
        d[CHOOSE i \in DOMAIN d :
              /\ d[i].category = c
              /\ \A j \in DOMAIN d : d[j].category = c => j <= i].items]

\* Map lower-cased, trimmed name -> emoji of the first item carrying it
BuildNameToEmoji(d) ==
    LET items == allItemsOf(d)
        keys == {normalizeName(n) :
                    n \in UNION {SeqToSet(it.names) : it \in SeqToSet(items)}}
    IN [k \in {x \in keys : ~IsEmptyString(x)} |->
          items[FirstIndex(items,
                   LAMBDA it : \E n \in SeqToSet(it.names) :
                                  normalizeName(n) = k)].emoji]

\* Map keyword -> emoji of the first item carrying it, for keywords that are
\* no name
BuildKeywordToEmoji(d) ==
    LET items == allItemsOf(d)
        names == BuildNameToEmoji(d)
        keys == {normalizeName(n) :
                    n \in UNION {SeqToSet(it.keywords) : it \in SeqToSet(items)}}
    IN [k \in {x \in keys : ~IsEmptyString(x) /\ x \notin DOMAIN names} |->
          items[FirstIndex(items,
                   LAMBDA it : \E n \in SeqToSet(it.keywords) :
                                  normalizeName(n) = k)].emoji]

MapGet(m, k) == IF k \in DOMAIN m THEN m[k] ELSE Undefined

\* a category that is undefined, null or "" (all falsy)
NoCategory == ""

\* emojiToCategory.get(key), NoCategory when there is none
CategoryGet(key) ==
    IF key \in DOMAIN emojiToCategory THEN emojiToCategory[key] ELSE NoCategory

\* findEmojiByName: [emoji, category] or NoContent (null)
findEmojiByName(name) ==
    LET normalized == normalizeName(name)
        overrideEmoji ==
            IF ~normalized.vs /\ normalized.base \in DOMAIN NAME_OVERRIDES
            THEN NAME_OVERRIDES[normalized.base] ELSE Undefined
        overrideCategory ==
            IF overrideEmoji = Undefined THEN NoCategory
            ELSE CategoryGet(normalizeEmoji(overrideEmoji))
        fromName == MapGet(nameToEmoji, normalized)
        emoji == IF fromName # Undefined THEN fromName
                 ELSE MapGet(keywordToEmoji, normalized)
        category == IF emoji = Undefined THEN NoCategory
                    ELSE CategoryGet(normalizeEmoji(emoji))
    IN IF overrideEmoji # Undefined /\ overrideCategory # NoCategory
       THEN [emoji |-> overrideEmoji, category |-> overrideCategory]
       ELSE IF emoji = Undefined THEN NoContent
       ELSE IF category = NoCategory THEN NoContent
       ELSE [emoji |-> emoji, category |-> category]

getEmojisByCategory(category) ==
    IF category \in DOMAIN categoryToItems THEN categoryToItems[category]
    ELSE <<>>

\* NoCategory (null) when the emoji is in no category
getCategoryByEmoji(emoji) == CategoryGet(normalizeEmoji(emoji))

\* areVisuallySimilar looking the emoji up as given
areVisuallySimilar_RawKeys(emoji1, emoji2) ==
    IF emoji1 \notin DOMAIN emojiToNames \/ emoji2 \notin DOMAIN emojiToNames
    THEN FALSE
    ELSE LET names1Lower == {toLowerCase(n) : n \in SeqToSet(emojiToNames[emoji1])}
         IN \E n \in SeqToSet(emojiToNames[emoji2]) :
               toLowerCase(n) \in names1Lower

\* areVisuallySimilar lower-casing the names of the second emoji only
areVisuallySimilar_HalfLowered(emoji1, emoji2) ==
    LET key1 == normalizeEmoji(emoji1)
        key2 == normalizeEmoji(emoji2)
    IN IF key1 \notin DOMAIN emojiToNames \/ key2 \notin DOMAIN emojiToNames
       THEN FALSE
       ELSE \E n \in SeqToSet(emojiToNames[key2]) :
               toLowerCase(n) \in SeqToSet(emojiToNames[key1])

areVisuallySimilar(emoji1, emoji2) ==
    LET key1 == normalizeEmoji(emoji1)
        key2 == normalizeEmoji(emoji2)
    IN IF key1 \notin DOMAIN emojiToNames \/ key2 \notin DOMAIN emojiToNames
       THEN FALSE
       ELSE LET names1Lower == {toLowerCase(n) : n \in SeqToSet(emojiToNames[key1])}
            IN \E n \in SeqToSet(emojiToNames[key2]) :
                  toLowerCase(n) \in names1Lower

\* validDistractors without the similarity test
validDistractors_TargetOnly(targetEmoji, category) ==
    LET targetKey == normalizeEmoji(targetEmoji)
    IN Filter(getEmojisByCategory(category),
              LAMBDA item : normalizeEmoji(item.emoji) # targetKey)

\* the items getDistractors keeps before shuffling
validDistractors(targetEmoji, category) ==
    LET targetKey == normalizeEmoji(targetEmoji)
    IN Filter(getEmojisByCategory(category),
              LAMBDA item : /\ normalizeEmoji(item.emoji) # targetKey
                            /\ ~areVisuallySimilar(targetEmoji, item.emoji))

\* getDistractors: the set of lists it can return
getDistractors(targetEmoji, category, count) ==
    LET valid == validDistractors(targetEmoji, category)
    IN ShuffleTake([i \in DOMAIN valid |-> valid[i].emoji], count)

-----------------------------------------------------------------------------
(* lib/game-content.ts (src/lib/audio.ts, lines 273-513) *)

\* the own properties of CSS_COLORS, in definition order
CSS_COLORS ==
    << <<"red", "red">>, <<"blue", "blue">>, <<"green", "green">>,
       <<"yellow", "yellow">>, <<"orange", "orange">>, <<"purple", "purple">>,
       <<"pink", "pink">>, <<"brown", "brown">>, <<"black", "black">>,
       <<"white", "white">>, <<"gray", "gray">>, <<"grey", "gray">>,
       <<"cyan", "cyan">>, <<"magenta", "magenta">>, <<"lime", "lime">>,
       <<"navy", "navy">>, <<"teal", "teal">>, <<"maroon", "maroon">>,
       <<"olive", "olive">>, <<"aqua", "aqua">>, <<"gold", "gold">>,
       <<"silver", "silver">>,
       <<"rojo", "red">>, <<"azul", "blue">>, <<"verde", "green">>,
       <<"amarillo", "yellow">>, <<"naranja", "orange">>,
       <<"morado", "purple">>, <<"rosa", "pink">>,
       <<"rouge", "red">>, <<"bleu", "blue">>, <<"vert", "green">>,
       <<"jaune", "yellow">>,
       <<"rot", "red">>, <<"blau", "blue">>, <<"grün", "green">>,
       <<"gelb", "yellow">> >>

CssColorKeys == {CSS_COLORS[i][1] : i \in DOMAIN CSS_COLORS}

\* Object.values(CSS_COLORS)
CssColorValues == [i \in DOMAIN CSS_COLORS |-> Str(CSS_COLORS[i][2])]

\* lower-case property names every object literal inherits from
\* Object.prototype; their values are truthy and are not strings
InheritedKeys == {"constructor", "__proto__"}
InheritedValue(k) == [object |-> k]

\* CSS_COLORS[key]
CssColorsGet(key) ==
    IF key.vs \/ key.caps \/ key.pad THEN Undefined
    ELSE IF key.base \in CssColorKeys
    THEN Str(CSS_COLORS[CHOOSE i \in DOMAIN CSS_COLORS :
                            CSS_COLORS[i][1] = key.base][2])
    ELSE IF key.base \in InheritedKeys THEN InheritedValue(key.base)
    ELSE Undefined

COLOR_GROUPS ==
    << <<"red", "orange", "pink", "maroon">>,
       <<"blue", "cyan", "navy", "teal">>,
       <<"green", "lime", "olive", "teal">>,
       <<"yellow", "gold", "orange", "lime">>,
       <<"purple", "magenta", "pink", "navy">>,
       <<"brown", "maroon", "orange", "olive">>,
       <<"black", "gray", "navy", "brown">>,
       <<"white", "silver", "gray", "cyan">> >>

\* g.includes(c)
GroupIncludes(g, c) == \E i \in DOMAIN g : Str(g[i]) = c

\* the colors getColorDistractors keeps before shuffling
otherColors(targetColor) ==
    LET gi == FirstIndex(COLOR_GROUPS,
                         LAMBDA g : GroupIncludes(g, targetColor))
    IN Filter(CssColorValues,
              LAMBDA c : /\ c # targetColor
                         /\ (gi = 0 \/ ~GroupIncludes(COLOR_GROUPS[gi], c)))

\* getColorDistractors: the set of lists it can return
getColorDistractors(targetColor, count) ==
    ShuffleTake(Dedup(otherColors(targetColor)), count)

Content(t, v, ds) == [type |-> t, targetValue |-> v, distractors |-> ds]

\* generateLocalContent lower-casing the word without trimming it
generateLocalContent_LowerOnly(w) ==
    LET normalizedWord == toLowerCase(w)
        cssColor == CssColorsGet(normalizedWord)
        emojiMatch == findEmojiByName(normalizedWord)
    IN IF cssColor # Undefined
       THEN {Content("color", cssColor, ds) :
                ds \in getColorDistractors(cssColor, 2)}
       ELSE IF emojiMatch # NoContent
       THEN {IF Len(ds) < 2 THEN NoContent
             ELSE Content("emoji", emojiMatch.emoji, ds) :
                ds \in getDistractors(emojiMatch.emoji, emojiMatch.category, 2)}
       ELSE {NoContent}

\* generateLocalContent: the set of values it can return
generateLocalContent(w) ==
    LET normalizedWord == trim(toLowerCase(w))
        cssColor == CssColorsGet(normalizedWord)
        emojiMatch == findEmojiByName(normalizedWord)
    IN IF cssColor # Undefined
       THEN {Content("color", cssColor, ds) :
                ds \in getColorDistractors(cssColor, 2)}
       ELSE IF emojiMatch # NoContent
       THEN {IF Len(ds) < 2 THEN NoContent
             ELSE Content("emoji", emojiMatch.emoji, ds) :
                ds \in getDistractors(emojiMatch.emoji, emojiMatch.category, 2)}
       ELSE {NoContent}

\* needsFix tripping on every content
needsFix_Always(content) == TRUE

\* the three checks of fixVisuallySimilarEmojis
needsFix(content) ==
    LET target == content.targetValue
        distractors == content.distractors
    IN \/ \E i \in DOMAIN distractors :
             areVisuallySimilar(target, distractors[i])
       \/ /\ Len(distractors) >= 2
          /\ areVisuallySimilar(distractors[1], distractors[2])

\* repairCandidates without the similarity test
repairCandidates_TargetOnly(target) ==
    LET category == getCategoryByEmoji(target)
    IN IF category = NoCategory THEN <<>>
       ELSE Filter(getEmojisByCategory(category),
                   LAMBDA item : item.emoji # target)

\* the items the category-based repair keeps before shuffling
repairCandidates(target) ==
    LET category == getCategoryByEmoji(target)
    IN IF category = NoCategory THEN <<>>
       ELSE Filter(getEmojisByCategory(category),
                   LAMBDA item : /\ item.emoji # target
                                 /\ ~areVisuallySimilar(target, item.emoji))

\* fixVisuallySimilarEmojis trying the original distractors before the
\* category
fixVisuallySimilarEmojis_FilterFirst(content) ==
    IF content.type # "emoji" THEN {content}
    ELSE IF ~needsFix(content) THEN {content}
    ELSE LET target == content.targetValue
             valid == repairCandidates(target)
             filtered == Filter(content.distractors,
                                LAMBDA d : /\ ~areVisuallySimilar(target, d)
                                           /\ d # target)
         IN IF Len(filtered) >= 2
            THEN {[content EXCEPT !.distractors = <<filtered[1], filtered[2]>>]}
            ELSE IF Len(valid) >= 2
            THEN {[content EXCEPT !.distractors = ds] :
                    ds \in ShuffleTake([i \in DOMAIN valid |-> valid[i].emoji], 2)}
            ELSE {content}

\* fixVisuallySimilarEmojis: the set of values it can return
fixVisuallySimilarEmojis(content) ==
    IF content.type # "emoji" THEN {content}
    ELSE IF ~needsFix(content) THEN {content}
    ELSE LET target == content.targetValue
             valid == repairCandidates(target)
             filtered == Filter(content.distractors,
                                LAMBDA d : /\ ~areVisuallySimilar(target, d)
                                           /\ d # target)
         IN IF Len(valid) >= 2
            THEN {[content EXCEPT !.distractors = ds] :
                    ds \in ShuffleTake([i \in DOMAIN valid |-> valid[i].emoji], 2)}
            ELSE IF Len(filtered) >= 2
            THEN {[content EXCEPT !.distractors = <<filtered[1], filtered[2]>>]}
            ELSE {content}

-----------------------------------------------------------------------------
(* lib/schema.ts *)

\* a JSON value that is not a string
NotAString == [number |-> 0]
IsString(v) == v # NotAString

\* SchemaAccepts without the enumeration of the types
SchemaAccepts_AnyType(raw) ==
    /\ IsString(raw.targetValue)
    /\ \A i \in DOMAIN raw.distractors : IsString(raw.distractors[i])
    /\ Len(raw.distractors) >= 2

\* GameContentSchema: does the raw object conform
SchemaAccepts(raw) ==
    /\ raw.type \in {"color", "emoji"}
    /\ IsString(raw.targetValue)
    /\ \A i \in DOMAIN raw.distractors : IsString(raw.distractors[i])
    /\ Len(raw.distractors) >= 2

\* SchemaParse without the transform
SchemaParse_KeepAll(raw) ==
    Content(raw.type, raw.targetValue, raw.distractors)

\* GameContentSchema: the parsed value (.transform keeps the first two)
SchemaParse(raw) ==
    Content(raw.type, raw.targetValue, SubSeq(raw.distractors, 1, 2))

-----------------------------------------------------------------------------
(* The loaded database and the inputs *)

AnimalEmoji ==
    <<DOG_FACE, Str("U+1F431"), Str("U+1F42D"), Str("U+1F439"),
      Str("U+1F430"), Str("U+1F98A")>>
LION == Str("U+1F981")
BLOSSOM == Str("U+1F338")
ROSE == Str("U+1F339")
SUN == WithVS(Str("U+2600"))
FAMILY == Str("U+1F46A")
COUPLE == Str("U+1F46B")
HOLDING_HANDS == Str("U+1F46C")
QUESTION_MARK == Str("U+2753")   \* in no database

\* the name lists an animal item can have; "Cat" and "cat" differ in case only
NameLists ==
    { <<Str("dog")>>, <<Caps(Str("cat")), Str("pet")>>, <<Str("cat")>> }

AnimalKeywords(i) == IF i = 1 THEN <<Str("pet")>> ELSE <<>>

\* a database as the generator writes it: categories in order, every item
\* with a distinct emoji and a non-empty names list
Database(animalNames) ==
    << [category |-> "animals",
        items |-> [i \in 1..NumAnimals |->
                      Item(AnimalEmoji[i], animalNames[i], AnimalKeywords(i))]
                  \o <<Item(LION, <<Str("lion")>>, <<Str("cat"), Str("zoo")>>)>>],
       [category |-> "nature",
        items |-> <<Item(BLOSSOM, <<Str("cherry blossom"), Str("flower")>>, <<>>),
                    Item(ROSE, <<Str("rose"), Str("flower")>>, <<Str("plant")>>),
                    Item(SUN, <<Str("sun")>>, <<Str("sunny")>>)>>],
       [category |-> "internal:family",
        items |-> <<Item(FAMILY, <<Str("family")>>, <<>>),
                    Item(COUPLE, <<Str("couple")>>, <<>>),
                    Item(HOLDING_HANDS, <<Str("men holding hands")>>, <<>>)>>] >>

Databases == {Database(an) : an \in [1..NumAnimals -> NameLists]}

\* the words generateGameContent is called with
Words ==
    { Padded(Caps(Str("red"))), Str("grey"), Str("constructor"),
      Str("dog"), Caps(Str("dog")), Str("cat"), Str("pet"), Str("lion"),
      Str("puppy"), Str("zoo"), Str("rose"), Str("sun"), Str("family"),
      Str("xyznonexistent") }

\* what the service can answer
ResponseEmoji ==
    { DOG_FACE, WithVS(DOG_FACE), AnimalEmoji[2], LION, ROSE,
      normalizeEmoji(SUN), QUESTION_MARK }
ResponseColors == { Str("red"), Str("pink") }

WellFormedResponses ==
    {Content("emoji", t, <<a, b>>) : t \in ResponseEmoji,
                                     a \in ResponseEmoji, b \in ResponseEmoji}
    \cup {Content("color", t, <<a, b>>) : t \in ResponseColors,
                                          a \in ResponseColors, b \in ResponseColors}

LongResponses ==
    {Content("emoji", LION, <<a, b, c>>) :
        a \in {ROSE, QUESTION_MARK}, b \in {ROSE, BLOSSOM}, c \in {DOG_FACE, NotAString}}

MalformedResponses ==
    { Content("shape", LION, <<ROSE, DOG_FACE>>),
      Content("emoji", NotAString, <<ROSE, DOG_FACE>>),
      Content("emoji", LION, <<>>),
      Content("emoji", LION, <<ROSE>>),
      Content("color", Str("red"), <<Str("blue"), NotAString>>) }

RawResponses == WellFormedResponses \cup LongResponses \cup MalformedResponses

\* the curated topics: every word has local content on every database, one
\* topic has a single word
TOPICS ==
    << [id |-> "colors", words |-> <<Str("red")>>],
       [id |-> "animal-friends",
        words |-> <<Str("lion"), Str("sun"), Str("family")>>] >>

-----------------------------------------------------------------------------
(* generateGameContent *)

\* if (localContent) return localContent
returnsLocal(lc) == lc # NoContent

\* afterOutput returning the output as received
afterOutput_Unfixed(out) == {out}

\* return fixVisuallySimilarEmojis(output): the values it can return
afterOutput(out) == fixVisuallySimilarEmojis(out)

\* catchError passing the error on
catchError_Rethrow == [ret |-> NoContent, threw |-> TRUE]

\* catch (error) { ...; return null }
catchError == [ret |-> NoContent, threw |-> FALSE]

Init ==
    /\ db \in Databases
    /\ nameToEmoji = BuildNameToEmoji(db)
    /\ keywordToEmoji = BuildKeywordToEmoji(db)
    /\ emojiToNames = BuildEmojiToNames(db)
    /\ emojiToCategory = BuildEmojiToCategory(db)
    /\ categoryToItems = BuildCategoryToItems(db)
    /\ pc = "idle"
    /\ word = Str("")
    /\ localContent = NoContent
    /\ llmInvoked = FALSE
    /\ response = NoContent
    /\ output = NoContent
    /\ failure = "none"
    /\ ret = NoContent
    /\ threw = FALSE
    /\ topics = TOPICS
    /\ sessionPc = "idle"
    /\ topicId = ""
    /\ sessionLength = 0
    /\ session = NoContent
    /\ gameClient = NoContent
    /\ home = NoContent
    /\ topicPlay = NoContent
    /\ buildPc = "idle"
    /\ sourceEntries = <<>>
    /\ localeData = NoContent
    /\ result = NoContent
    /\ outputFile = NoContent
    /\ exitCode = 0

\* the call up to its first await: the local generator, then either the
\* return of its content or the request to the service
Start(w) ==
    /\ pc = "idle"
    /\ \E lc \in generateLocalContent(w) :
         /\ word' = w
         /\ localContent' = lc
         /\ IF returnsLocal(lc)
            THEN pc' = "done" /\ ret' = lc /\ llmInvoked' = FALSE
            ELSE pc' = "awaiting" /\ ret' = NoContent /\ llmInvoked' = TRUE
    /\ UNCHANGED <<screens, pipeline, maps, response, output, failure, threw, topicSession>>

\* the service answers with an object the schema accepts
ServiceResponds(raw) ==
    /\ pc = "awaiting"
    /\ SchemaAccepts(raw)
    /\ response' = raw
    /\ output' = SchemaParse(raw)
    /\ ret' \in afterOutput(SchemaParse(raw))
    /\ pc' = "done"
    /\ UNCHANGED <<screens, pipeline, maps, word, localContent, llmInvoked, failure, threw,
                   topicSession>>

\* generateText resolves without an output
ServiceEmpty ==
    /\ pc = "awaiting"
    /\ failure' = "empty"
    /\ ret' = NoContent
    /\ pc' = "done"
    /\ UNCHANGED <<screens, pipeline, maps, word, localContent, llmInvoked, response, output, threw,
                   topicSession>>

\* generateText rejects: network error, timeout, or an answer the schema
\* does not accept
ServiceFails(kind) ==
    /\ pc = "awaiting"
    /\ IF kind = "schema"
       THEN \E raw \in RawResponses : ~SchemaAccepts(raw) /\ response' = raw
       ELSE response' = NoContent
    /\ failure' = kind
    /\ ret' = catchError.ret
    /\ threw' = catchError.threw
    /\ pc' = "done"
    /\ UNCHANGED <<screens, pipeline, maps, word, localContent, llmInvoked, output, topicSession>>

\* the service never answers: the promise of generateText stays pending and,
\* no timer or abort signal being passed to it, nothing resumes the call
ServiceSilent ==
    /\ pc = "awaiting"
    /\ pc' = "hung"
    /\ UNCHANGED <<screens, pipeline, maps, word, localContent, llmInvoked, response, output,
                   failure, ret, threw, topicSession>>

\* the caller has the result; the next request starts from scratch
Finish ==
    /\ pc = "done"
    /\ pc' = "idle"
    /\ word' = Str("")
    /\ localContent' = NoContent
    /\ llmInvoked' = FALSE
    /\ response' = NoContent
    /\ output' = NoContent
    /\ failure' = "none"
    /\ ret' = NoContent
    /\ threw' = FALSE
    /\ UNCHANGED <<screens, pipeline, maps, topicSession>>

Next ==
    \/ \E w \in Words : Start(w)
    \/ \E raw \in RawResponses : ServiceResponds(raw)
    \/ ServiceEmpty
    \/ \E kind \in {"network", "timeout", "schema"} : ServiceFails(kind)
    \/ ServiceSilent
    \/ Finish

Spec == Init /\ [][Next]_vars

TypeOK ==
    /\ pc \in {"idle", "awaiting", "hung", "done"}
    /\ llmInvoked \in BOOLEAN
    /\ threw \in BOOLEAN

-----------------------------------------------------------------------------
(* generateLocalContent over the whole color dictionary and over spellings *)
(* of a word that differ in case and surrounding white space               *)

\* the ways a caller can write the word s
Spellings(s) == {s, Caps(s), Padded(s), Padded(Caps(s))}

\* every key of the color dictionary, the aliases and translations among
\* them in all spellings
DictionaryWords ==
    {Str(k) : k \in CssColorKeys}
    \cup UNION {Spellings(Str(k)) :
                  k \in {"red", "gray", "grey", "rojo", "rouge", "rot", "grün"}}

\* names, keywords, an override and an unknown word, in all spellings
NameWords ==
    UNION {Spellings(Str(k)) : k \in {"dog", "pet", "puppy", "zoo", "flower",
                                      "family", "xyznonexistent"}}

LookupWords == DictionaryWords \cup NameWords

\* the databases whose first three animals are named dog, Cat and cat
WordDatabases ==
    {d \in Databases :
        /\ d[1].items[1].names = <<Str("dog")>>
        /\ d[1].items[2].names = <<Caps(Str("cat")), Str("pet")>>
        /\ d[1].items[3].names = <<Str("cat")>>}

InitWords == Init /\ db \in WordDatabases

NextWords ==
    \/ \E w \in LookupWords : Start(w)
    \/ ServiceEmpty
    \/ Finish

SpecWords == InitWords /\ [][NextWords]_vars

-----------------------------------------------------------------------------
(* lib/topics/index.ts and lib/topics/session.ts *)

TopicIds == {"colors", "animal-friends", "invalid-topic"}
SessionLengths == 1..MaxSessionLength

\* index of the topic with this id in TOPICS (0 if none)
topicIndex(id) == FirstIndex(topics, LAMBDA topic : topic.id = id)

\* TOPICS.find(topic => topic.id === id)
getTopicById(id) ==
    IF topicIndex(id) = 0 THEN Undefined ELSE topics[topicIndex(id)]

\* what a call of getRandomWordsFromTopic leaves behind: the list it returns
\* and the word list of the topic afterwards
WordsOutcome(returned, stored) == [words |-> returned, stored |-> stored]

\* getRandomWordsFromTopic returning the whole shuffled list
getRandomWordsFromTopic_NoSlice(id, count) ==
    LET topic == getTopicById(id)
    IN IF topic = Undefined THEN {WordsOutcome(<<>>, <<>>)}
       ELSE {WordsOutcome(shuffled, topic.words) :
                shuffled \in ShuffleTake(topic.words, Len(topic.words))}

\* getRandomWordsFromTopic shuffling topic.words itself instead of a copy
getRandomWordsFromTopic_InPlace(id, count) ==
    LET topic == getTopicById(id)
    IN IF topic = Undefined THEN {WordsOutcome(<<>>, <<>>)}
       ELSE {WordsOutcome(SubSeq(shuffled, 1, Min(count, Len(topic.words))),
                          shuffled) :
                shuffled \in ShuffleTake(topic.words, Len(topic.words))}

\* getRandomWordsFromTopic: the outcomes it can have; shuffle works in place
\* on the copy [...topic.words]
getRandomWordsFromTopic(id, count) ==
    LET topic == getTopicById(id)
    IN IF topic = Undefined THEN {WordsOutcome(<<>>, <<>>)}
       ELSE {WordsOutcome(SubSeq(shuffled, 1, Min(count, Len(topic.words))),
                          topic.words) :
                shuffled \in ShuffleTake(topic.words, Len(topic.words))}

\* an element of a round's items; the id `${word}-target` is word and role
RoundItem(w, role, value, isCorrect) ==
    [id |-> <<w, role>>, value |-> value, isCorrect |-> isCorrect]

\* roundItems marking the first distractor as correct too
roundItems_TwoCorrect(w, content) ==
    << RoundItem(w, "target", content.targetValue, TRUE),
       RoundItem(w, "d1", content.distractors[1], TRUE),
       RoundItem(w, "d2", content.distractors[2], FALSE) >>

\* the array handed to shuffle for the round of word w
roundItems(w, content) ==
    << RoundItem(w, "target", content.targetValue, TRUE),
       RoundItem(w, "d1", content.distractors[1], FALSE),
       RoundItem(w, "d2", content.distractors[2], FALSE) >>

\* the rounds that can be pushed for word w with content
roundsOfContent(w, content) ==
    {[word |-> w, type |-> content.type, targetValue |-> content.targetValue,
      distractors |-> content.distractors, items |-> items] :
        items \in ShuffleTake(roundItems(w, content), 3)}

\* the loop over the words: the lists of rounds it can leave behind
RECURSIVE roundsOfWords(_)
roundsOfWords(words) ==
    IF words = <<>> THEN {<<>>}
    ELSE LET rest == roundsOfWords(Tail(words))
         IN UNION {IF content = NoContent THEN rest
                   ELSE {<<round>> \o rounds :
                            round \in roundsOfContent(Head(words), content),
                            rounds \in rest} :
                     content \in generateLocalContent(Head(words))}

\* return rounds.length > 0 ? rounds : null (a returned list is the record
\* of its rounds)
sessionResult(rounds) ==
    IF Len(rounds) > 0 THEN [rounds |-> rounds] ELSE NoContent

\* the play page calls generateTopicSession(id, length)
GenerateSession(id, length) ==
    /\ sessionPc = "idle"
    /\ topicId' = id
    /\ sessionLength' = length
    /\ IF getTopicById(id) = Undefined
       THEN session' = NoContent /\ topics' = topics
       ELSE \E picked \in getRandomWordsFromTopic(id, length) :
              /\ topics' = [topics EXCEPT ![topicIndex(id)].words = picked.stored]
              /\ \E rounds \in roundsOfWords(picked.words) :
                    session' = sessionResult(rounds)
    /\ sessionPc' = "done"
    /\ UNCHANGED <<screens, pipeline, maps, request>>

\* the page is rendered; the next visit starts from scratch
EndSession ==
    /\ sessionPc = "done"
    /\ sessionPc' = "idle"
    /\ topicId' = ""
    /\ sessionLength' = 0
    /\ session' = NoContent
    /\ UNCHANGED <<screens, pipeline, maps, request, topics>>

InitTopics == Init /\ db \in WordDatabases

NextTopics ==
    \/ \E id \in TopicIds, length \in SessionLengths : GenerateSession(id, length)
    \/ EndSession

SpecTopics == InitTopics /\ [][NextTopics]_vars

-----------------------------------------------------------------------------
(* A generateGameContent call and a generateTopicSession call running      *)
(* concurrently: the session is generated at any point of the request,     *)
(* also while the request awaits the service                               *)

ConcurrentWords == {Str("dog"), Str("zoo"), Str("xyznonexistent")}

ConcurrentResponses ==
    { Content("emoji", LION, <<DOG_FACE, WithVS(DOG_FACE)>>),
      Content("emoji", LION, <<DOG_FACE, ROSE>>),
      Content("emoji", QUESTION_MARK, <<ROSE, ROSE>>),
      Content("color", Str("red"), <<Str("pink"), Str("red")>>) }

InitConcurrent == Init /\ db \in WordDatabases

NextConcurrent ==
    \/ \E w \in ConcurrentWords : Start(w)
    \/ \E raw \in ConcurrentResponses : ServiceResponds(raw)
    \/ ServiceEmpty
    \/ \E kind \in {"network", "timeout", "schema"} : ServiceFails(kind)
    \/ ServiceSilent
    \/ Finish
    \/ \E id \in {"animal-friends", "invalid-topic"} : GenerateSession(id, 1)
    \/ EndSession

SpecConcurrent == InitConcurrent /\ [][NextConcurrent]_vars

-----------------------------------------------------------------------------
(* scripts/generate-emoji-data.ts: the offline build of the database.

   A symbol is a record [glyph, vs, tone]: vs tells whether the string
   carries a variation selector, tone whether it carries a skin-tone
   modifier.  A label (a name, a keyword) is the sequence of its words;
   the empty label is the empty string.  A similarity score is kept in
   hundredths. *)

Glyph(g) == [glyph |-> g, no |-> 0, vs |-> FALSE, tone |-> FALSE]
WithTone(e) == [e EXCEPT !.tone = TRUE]

LOCALES == <<"en", "vi">>

normalizeEmojiKey(emoji) == [emoji EXCEPT !.vs = FALSE]

stripSkinTone(emoji) == [emoji EXCEPT !.tone = FALSE]

\* String.prototype.toLowerCase on one word
toLowerCaseWord(w) ==
    IF w = "Hound" THEN "hound"
    ELSE IF w = "Japan" THEN "japan"
    ELSE w

\* String.prototype.toLowerCase on a label
toLowerCaseLabel(label) == [i \in DOMAIN label |-> toLowerCaseWord(label[i])]

\* the run of letters and digits of one word of a label
alphanumeric(w) == IF w = "flag:" THEN "flag" ELSE w

\* name.split(/[^a-zA-Z0-9]+/).filter(Boolean)
splitWords(name) == [i \in DOMAIN name |-> alphanumeric(name[i])]

\* String.prototype.length of a word
WordLength(w) == Len(w)

\* String.prototype.length of a label: its words and the spaces between
RECURSIVE LabelLength(_)
LabelLength(label) ==
    IF label = <<>> THEN 0
    ELSE IF Len(label) = 1 THEN WordLength(label[1])
    ELSE WordLength(label[1]) + 1 + LabelLength(Tail(label))

\* a symbol the annotation files do not list
NoAnnotation == [tts |-> <<>>, keywords |-> <<>>]

getLocaleEntry(annotations, emoji) ==
    IF emoji \in DOMAIN annotations THEN annotations[emoji]
    ELSE IF /\ normalizeEmojiKey(emoji) # emoji
            /\ normalizeEmojiKey(emoji) \in DOMAIN annotations
    THEN annotations[normalizeEmojiKey(emoji)]
    ELSE NoAnnotation

getEnglishName(locale, emoji) ==
    LET annotation == getLocaleEntry(locale.annotations, emoji)
        derived == getLocaleEntry(locale.derived, emoji)
    IN IF annotation.tts # <<>> THEN annotation.tts
       ELSE IF derived.tts # <<>> THEN derived.tts
       ELSE <<>>

collectLocaleNames(locale, emoji) ==
    LET annotation == getLocaleEntry(locale.annotations, emoji)
        derived == getLocaleEntry(locale.derived, emoji)
    IN (IF annotation.tts # <<>> THEN <<annotation.tts>> ELSE <<>>)
       \o (IF derived.tts # <<>> THEN <<derived.tts>> ELSE <<>>)

collectLocaleKeywords(locale, emoji) ==
    getLocaleEntry(locale.annotations, emoji).keywords
    \o getLocaleEntry(locale.derived, emoji).keywords

\* the groups and subgroups of CATEGORY_BY_GROUP that the sources use
CATEGORY_BY_GROUP ==
    << <<"Smileys & Emotion", "face-smiling", "faces">>,
       <<"People & Body", "family", "internal:family">>,
       <<"People & Body", "hand-fingers-open", "internal:hands">>,
       <<"Animals & Nature", "animal-mammal", "animals">>,
       <<"Food & Drink", "drink", "drinks">>,
       <<"Objects", "other-object", "objects">>,
       <<"Flags", "country-flag", "country">> >>

\* mapCategory: the category, or Undefined where the code throws
mapCategory(group, subgroup) ==
    LET rows == {i \in DOMAIN CATEGORY_BY_GROUP :
                    /\ CATEGORY_BY_GROUP[i][1] = group
                    /\ CATEGORY_BY_GROUP[i][2] = subgroup}
    IN IF rows = {} THEN "" ELSE CATEGORY_BY_GROUP[CHOOSE i \in rows : TRUE][3]

MAX_KEYWORD_FREQUENCY == 75

SYNONYM_THRESHOLD == 45

\* the largest corpus-wide count of a similarity keyword
MAX_SIMILARITY_COUNT == 10

\* cosine similarity of the word vectors, in hundredths; 0 for a text
\* without a vector
SIMILARITY ==
    << <<"pet", <<"dog">>, 60>>, <<"pet", <<"poodle">>, 60>>,
       <<"hound", <<"dog">>, 50>>, <<"hound", <<"poodle">>, 60>>,
       <<"kiss", <<"dog">>, 20>>, <<"kiss", <<"poodle">>, 20>>,
       <<"thing", <<"poodle">>, 50>>,
       <<"juice", <<"beverage", "box">>, 30>> >>

semanticSimilarity(word1, word2) ==
    LET rows == {i \in DOMAIN SIMILARITY :
                    /\ <<SIMILARITY[i][1]>> = word1
                    /\ SIMILARITY[i][2] = word2}
    IN IF word1 = <<>> \/ word2 = <<>> THEN 0
       ELSE IF word1 = word2 THEN 100
       ELSE IF rows = {} THEN 0
       ELSE SIMILARITY[CHOOSE i \in rows : TRUE][3]

\* moby.search: the synonyms of a keyword, the empty set for null
MOBY ==
    << <<"kiss", {<<"smack">>, <<"dog">>, <<"poodle">>}>>,
       <<"juice", {<<"drink">>, <<"beverage">>}>> >>

mobySearch(keyword) ==
    LET rows == {i \in DOMAIN MOBY : <<MOBY[i][1]>> = keyword}
    IN IF rows = {} THEN {} ELSE MOBY[CHOOSE i \in rows : TRUE][2]

\* the internal-only categories in use
InternalCategories == {"internal:family", "internal:hands"}

\* category.startsWith("internal:")
isInternalCategory(category) == category \in InternalCategories

\* an entry that is a skin-tone variant of a symbol of the list: it shares
\* the names of its base symbol and is not processed on its own
isSkinToneVariant(E, entry) ==
    LET baseKey == normalizeEmojiKey(stripSkinTone(entry.emoji))
    IN /\ \E i \in DOMAIN E : normalizeEmojiKey(E[i].emoji) = baseKey
       /\ baseKey # normalizeEmojiKey(entry.emoji)

\* emojiByKey.get(key): the first symbol of the list with this key
emojiByKey(E, key) ==
    E[CHOOSE i \in DOMAIN E :
        /\ normalizeEmojiKey(E[i].emoji) = key
        /\ \A j \in 1..(i - 1) : normalizeEmojiKey(E[j].emoji) # key].emoji

\* aliasMap: the variants with the symbol each is folded into, in order
aliasMapOf(E) ==
    LET variants == SelectSeq(E, LAMBDA entry : isSkinToneVariant(E, entry))
    IN [i \in DOMAIN variants |->
          [base |-> emojiByKey(E, normalizeEmojiKey(stripSkinTone(variants[i].emoji))),
           alias |-> variants[i].emoji]] \o <<>>

\* aliasMap.get(emoji), the empty list for none
aliasesOf(aliasMap, emoji) ==
    LET folded == SelectSeq(aliasMap, LAMBDA a : a.base = emoji)
    IN [i \in DOMAIN folded |-> folded[i].alias]

\* Phase 1a --------------------------------------------------------------

\* the words countWord is called with for one symbol
countedWords(L, emoji) ==
    UNION {
      {<<toLowerCaseWord(w)>> :
          w \in UNION {SeqToSet(splitWords(name)) :
                          name \in SeqToSet(collectLocaleNames(L[locale], emoji))}}
      \cup {toLowerCaseLabel(k) :
              k \in SeqToSet(collectLocaleKeywords(L[locale], emoji))}
      : locale \in SeqToSet(LOCALES)}

\* the words countKeywordOnly is called with for one symbol
countedKeywords(L, emoji) ==
    UNION {{toLowerCaseLabel(k) :
              k \in SeqToSet(collectLocaleKeywords(L[locale], emoji))}
           : locale \in SeqToSet(LOCALES)}

\* the map word -> symbols left by the first loop, for either counter
countsOf(E, Counted(_)) ==
    LET base == {i \in DOMAIN E : ~isSkinToneVariant(E, E[i])}
        calls == UNION {{<<w, E[i].emoji>> : w \in Counted(E[i].emoji)} : i \in base}
    IN [w \in {c[1] : c \in calls} |-> {c[2] : c \in {d \in calls : d[1] = w}}]
       @@ <<>>

\* counts.get(word)?.size || 0
sizeOf(counts, w) == IF w \in DOMAIN counts THEN Cardinality(counts[w]) ELSE 0

\* Phase 1b --------------------------------------------------------------

isInternal(entry) == isInternalCategory(mapCategory(entry.group, entry.subgroup))

\* the names of a symbol in all locales, lower-cased
existingNamesOf(L, emoji) ==
    UNION {{toLowerCaseLabel(name) :
               name \in SeqToSet(collectLocaleNames(L[locale], emoji))}
           : locale \in SeqToSet(LOCALES)}

\* the candidates one entry adds for the word, in the order of its keywords
candidatesOfEntry(L, keywordOnlyCounts, entry, lowerKeyword) ==
    LET englishTts == getEnglishName(L["en"], entry.emoji)
        allKeywords == collectLocaleKeywords(L["en"], entry.emoji)
        passing == SelectSeq(allKeywords, LAMBDA keyword :
            /\ toLowerCaseLabel(keyword) = lowerKeyword
            /\ sizeOf(keywordOnlyCounts, lowerKeyword) <= MAX_KEYWORD_FREQUENCY
            /\ semanticSimilarity(lowerKeyword, toLowerCaseLabel(englishTts))
                  >= SYNONYM_THRESHOLD)
    IN [i \in DOMAIN passing |->
          [emoji |-> entry.emoji,
           tts |-> englishTts,
           isNameMatch |-> lowerKeyword \in existingNamesOf(L, entry.emoji),
           synonymScore |-> semanticSimilarity(lowerKeyword, toLowerCaseLabel(englishTts))]]

\* the map keyword -> candidates left by the second loop
promotionCandidatesOf(E, L, keywordOnlyCounts) ==
    LET eligible == SelectSeq(E, LAMBDA entry :
                        ~isSkinToneVariant(E, entry) /\ ~isInternal(entry))
        lists(lowerKeyword) == Flatten([i \in DOMAIN eligible |->
                          candidatesOfEntry(L, keywordOnlyCounts, eligible[i], lowerKeyword)])
        words == {w \in DOMAIN keywordOnlyCounts : lists(w) # <<>>}
    IN [w \in words |-> lists(w)]

\* Phase 2 ---------------------------------------------------------------

\* the comparator handed to sort: negative when a goes first
compareCandidates_ScoreFirst(a, b) ==
    IF a.synonymScore # b.synonymScore
    THEN b.synonymScore - a.synonymScore
    ELSE IF a.isNameMatch /\ ~b.isNameMatch THEN -1
    ELSE IF ~a.isNameMatch /\ b.isNameMatch THEN 1
    ELSE LabelLength(a.tts) - LabelLength(b.tts)

compareCandidates(a, b) ==
    IF a.isNameMatch /\ ~b.isNameMatch THEN -1
    ELSE IF ~a.isNameMatch /\ b.isNameMatch THEN 1
    ELSE IF a.synonymScore # b.synonymScore
    THEN b.synonymScore - a.synonymScore
    ELSE LabelLength(a.tts) - LabelLength(b.tts)

\* Array.prototype.sort with compareCandidates: a stable sort
RECURSIVE sortCandidates(_)
sortCandidates(candidates) ==
    IF candidates = <<>> THEN <<>>
    ELSE LET sorted == sortCandidates(SubSeq(candidates, 1, Len(candidates) - 1))
             last == candidates[Len(candidates)]
             before == SelectSeq(sorted, LAMBDA c : compareCandidates(c, last) <= 0)
             after == SelectSeq(sorted, LAMBDA c : compareCandidates(c, last) > 0)
         IN before \o <<last>> \o after

keywordWinnersOf(candidates) ==
    [w \in DOMAIN candidates |-> sortCandidates(candidates[w])[1].emoji]

\* Phase 3 ---------------------------------------------------------------

\* the name added to the set for one label of a locale
displayName(category, name) ==
    IF category = "faces" /\ Len(name) >= 2 /\ name[Len(name)] = "face"
    THEN SubSeq(name, 1, Len(name) - 1)
    ELSE IF category = "country" /\ Len(name) >= 2 /\ name[1] = "flag:"
    THEN Tail(name)
    ELSE name

\* the names set after the loop over the locales
localeNamesOf(L, category, emoji) ==
    Dedup(Flatten([l \in DOMAIN LOCALES |->
        LET localeNames == collectLocaleNames(L[LOCALES[l]], emoji)
        IN [i \in DOMAIN localeNames |-> displayName(category, localeNames[i])]]))

\* one turn of the promotion loop without the promotion of unique keywords
promoteKeyword_WinnerOnly(names, keyword, emoji, keywordWinners, keywordCounts) ==
    LET lowerKeyword == toLowerCaseLabel(keyword)
        lowerNames == {toLowerCaseLabel(n) : n \in SeqToSet(names)}
    IN IF lowerKeyword \in lowerNames THEN names
       ELSE IF /\ lowerKeyword \in DOMAIN keywordWinners
               /\ keywordWinners[lowerKeyword] = emoji
       THEN Append(names, keyword)
       ELSE names

\* one turn of the promotion loop: the names after it
promoteKeyword(names, keyword, emoji, keywordWinners, keywordCounts) ==
    LET lowerKeyword == toLowerCaseLabel(keyword)
        lowerNames == {toLowerCaseLabel(n) : n \in SeqToSet(names)}
    IN IF lowerKeyword \in lowerNames THEN names
       ELSE IF /\ lowerKeyword \in DOMAIN keywordWinners
               /\ keywordWinners[lowerKeyword] = emoji
       THEN Append(names, keyword)
       ELSE IF sizeOf(keywordCounts, lowerKeyword) = 1
       THEN Append(names, keyword)
       ELSE names

\* the promotion loop over the keywords of one symbol: the names after it
RECURSIVE promoteKeywords(_, _, _, _, _)
promoteKeywords(names, allKeywords, emoji, keywordWinners, keywordCounts) ==
    IF allKeywords = <<>> THEN names
    ELSE promoteKeywords(promoteKeyword(names, Head(allKeywords), emoji,
                                        keywordWinners, keywordCounts),
                         Tail(allKeywords), emoji, keywordWinners, keywordCounts)

\* the keywords kept whatever their count above one
similarityKeywords_AnyCount(allKeywords, keywordCounts) ==
    SelectSeq(allKeywords, LAMBDA k :
        sizeOf(keywordCounts, toLowerCaseLabel(k)) > 1)

similarityKeywords(allKeywords, keywordCounts) ==
    SelectSeq(allKeywords, LAMBDA k :
        /\ sizeOf(keywordCounts, toLowerCaseLabel(k)) > 1
        /\ sizeOf(keywordCounts, toLowerCaseLabel(k)) <= MAX_SIMILARITY_COUNT)

\* the item built for one entry
itemOf(L, entry, aliasMap, keywordWinners, keywordCounts) ==
    LET category == mapCategory(entry.group, entry.subgroup)
        allKeywords == collectLocaleKeywords(L["en"], entry.emoji)
        names == promoteKeywords(localeNamesOf(L, category, entry.emoji),
                                 allKeywords, entry.emoji,
                                 keywordWinners, keywordCounts)
    IN [emoji |-> entry.emoji,
        names |-> names,
        keywords |-> similarityKeywords(allKeywords, keywordCounts),
        emoji_alias |-> aliasesOf(aliasMap, entry.emoji)]

\* the entries the third loop builds an item for: no variant, and each
\* symbol once
builtEntries(E) ==
    LET kept == SelectSeq([i \in DOMAIN E |-> i], LAMBDA i :
                    /\ ~isSkinToneVariant(E, E[i])
                    /\ \A j \in 1..(i - 1) : E[j].emoji # E[i].emoji)
    IN [k \in DOMAIN kept |-> E[kept[k]]] \o <<>>

\* [...categories.entries()]: the categories in the order of their first
\* symbol, each with its items in the order of the list
databaseOf(E, L, keywordWinners, keywordCounts) ==
    LET built == builtEntries(E)
        aliasMap == aliasMapOf(E)
        categoryOf == [i \in DOMAIN built |->
                          mapCategory(built[i].group, built[i].subgroup)] \o <<>>
        items == [i \in DOMAIN built |->
                     itemOf(L, built[i], aliasMap, keywordWinners, keywordCounts)]
                 \o <<>>
        names == Dedup(categoryOf)
    IN [c \in DOMAIN names |->
          LET members == SelectSeq([i \in DOMAIN built |-> i],
                                   LAMBDA i : categoryOf[i] = names[c])
          IN [category |-> names[c],
              items |-> [m \in DOMAIN members |-> items[members[m]]]]] \o <<>>

\* emojiToKeywordsMap: the keywords of the last item built for each key
emojiToKeywordsOf(database) ==
    LET items == Flatten([c \in DOMAIN database |-> database[c].items])
        keys == {normalizeEmojiKey(items[i].emoji) : i \in DOMAIN items}
    IN [key \in keys |->
          items[CHOOSE i \in DOMAIN items :
                  /\ normalizeEmojiKey(items[i].emoji) = key
                  /\ \A j \in (i + 1)..Len(items) :
                        normalizeEmojiKey(items[j].emoji) # key].keywords]

\* emojiToCategoryMap: the category of the last item built for each key
emojiToCategoryOf(database) ==
    LET placed == Flatten([c \in DOMAIN database |->
                     [i \in DOMAIN database[c].items |->
                        [key |-> normalizeEmojiKey(database[c].items[i].emoji),
                         category |-> database[c].category]]])
    IN [key \in {placed[i].key : i \in DOMAIN placed} |->
          placed[CHOOSE i \in DOMAIN placed :
                   /\ placed[i].key = key
                   /\ \A j \in (i + 1)..Len(placed) : placed[j].key # key].category]

\* Phase 4 ---------------------------------------------------------------

\* the items of the categories that are not internal, in database order
searchableItems(database) ==
    Flatten([c \in DOMAIN database |->
                IF isInternalCategory(database[c].category) THEN <<>>
                ELSE database[c].items])

\* name -> symbol after the fourth loop: the first symbol to register a
\* name keeps it
nameToEmojiOf(database) ==
    LET items == searchableItems(database)
        registered == UNION {{<<toLowerCaseLabel(n), i>> : n \in SeqToSet(items[i].names)}
                             : i \in DOMAIN items}
        named == {r \in registered : r[1] # <<>>}
    IN [name \in {r[1] : r \in named} |->
          LET holders == {r[2] : r \in {q \in named : q[1] = name}}
          IN items[CHOOSE i \in holders : \A j \in holders : i <= j].emoji]

\* Phase 5 ---------------------------------------------------------------

\* the words of the names of two words or more
compoundNameWords(names) ==
    UNION {{toLowerCaseWord(n[i]) : i \in {j \in DOMAIN n : WordLength(n[j]) >= 3}}
           : n \in {m \in SeqToSet(names) : Len(m) >= 2}}

\* the synonyms of the keyword match a name of the item or a word of one
\* of its compound names
synonymsMatch(item, keyword) ==
    LET existingNames == {toLowerCaseLabel(n) : n \in SeqToSet(item.names)}
        synonymSet == {toLowerCaseLabel(s) : s \in mobySearch(keyword)}
    IN \/ existingNames \cap synonymSet # {}
       \/ \E s \in synonymSet :
             Len(s) = 1 /\ s[1] \in compoundNameWords(item.names)

\* one turn of the inner loop without the test on the map
mobyStep_Overwrite(map, item, keyword) ==
    LET lowerKeyword == toLowerCaseLabel(keyword)
        existingNames == {toLowerCaseLabel(n) : n \in SeqToSet(item.names)}
    IN IF lowerKeyword \in existingNames THEN map
       ELSE IF mobySearch(keyword) = {} THEN map
       ELSE IF synonymsMatch(item, keyword)
       THEN [k \in DOMAIN map \cup {lowerKeyword} |->
                IF k = lowerKeyword THEN item.emoji ELSE map[k]]
       ELSE map

\* one turn of the inner loop: the map after it
mobyStep(map, item, keyword) ==
    LET lowerKeyword == toLowerCaseLabel(keyword)
        existingNames == {toLowerCaseLabel(n) : n \in SeqToSet(item.names)}
    IN IF lowerKeyword \in existingNames THEN map
       ELSE IF lowerKeyword \in DOMAIN map THEN map
       ELSE IF mobySearch(keyword) = {} THEN map
       ELSE IF synonymsMatch(item, keyword)
       THEN [k \in DOMAIN map \cup {lowerKeyword} |->
                IF k = lowerKeyword THEN item.emoji ELSE map[k]]
       ELSE map

\* the turns of the fifth loop, in order: each searchable item with each
\* of its similarity keywords
mobyTurns(database, emojiToKeywords) ==
    LET items == searchableItems(database)
    IN Flatten([i \in DOMAIN items |->
          LET allKeywords == emojiToKeywords[normalizeEmojiKey(items[i].emoji)]
          IN [k \in DOMAIN allKeywords |->
                 [item |-> items[i], keyword |-> allKeywords[k]]]])

RECURSIVE mobyPromotion(_, _)
mobyPromotion(map, turns) ==
    IF turns = <<>> THEN map
    ELSE mobyPromotion(mobyStep(map, Head(turns).item, Head(turns).keyword),
                       Tail(turns))

\* shortest names ---------------------------------------------------------

\* item.names.reduce((a, b) => a.length <= b.length ? a : b), names not empty
RECURSIVE shortestOf(_)
shortestOf(names) ==
    IF Len(names) = 1 THEN names[1]
    ELSE LET a == shortestOf(SubSeq(names, 1, Len(names) - 1))
             b == names[Len(names)]
         IN IF LabelLength(a) <= LabelLength(b) THEN a ELSE b

\* reduce of an empty array with no initial value throws a TypeError
reduceThrows(database) ==
    \E i \in DOMAIN searchableItems(database) :
        searchableItems(database)[i].names = <<>>

shortestNamesOf(database) ==
    LET items == searchableItems(database)
    IN Dedup([i \in DOMAIN items |-> shortestOf(items[i].names)])

\* buildEmojiDatabase: the fields of its result and the maps it used on the
\* way, or Undefined where it throws
buildEmojiDatabase(E, L) ==
    LET counts == countsOf(E, LAMBDA emoji : countedWords(L, emoji))
        keywordOnly == countsOf(E, LAMBDA emoji : countedKeywords(L, emoji))
        candidates == promotionCandidatesOf(E, L, keywordOnly)
        winners == keywordWinnersOf(candidates)
        built == databaseOf(E, L, winners, counts)
        keywordsMap == emojiToKeywordsOf(built)
        phase4 == nameToEmojiOf(built)
    IN IF \E i \in DOMAIN E :
             /\ ~isSkinToneVariant(E, E[i])
             /\ mapCategory(E[i].group, E[i].subgroup) = ""
       THEN Undefined
       ELSE IF reduceThrows(built) THEN Undefined
       ELSE [keywordCounts |-> counts,
             promotionCandidates |-> candidates,
             keywordWinners |-> winners,
             database |-> built,
             emojiToKeywords |-> keywordsMap,
             emojiToCategory |-> emojiToCategoryOf(built),
             nameToEmojiPhase4 |-> phase4,
             nameToEmoji |-> mobyPromotion(phase4, mobyTurns(built, keywordsMap)),
             shortestEmojiNames |-> shortestNamesOf(built)]

\* The sources ------------------------------------------------------------

POODLE == Glyph("poodle")
DOG == Glyph("dog")
KISS == Glyph("kiss")
WAVING_HAND == Glyph("waving hand")
BEVERAGE_BOX == Glyph("beverage box")
GRINNING == Glyph("grinning face")
JAPAN == Glyph("flag japan")

\* the other symbols of the list, all objects
NumOthers == 76
Other(i) == [Glyph("object") EXCEPT !.no = i]

Entry(emoji, group, subgroup) ==
    [emoji |-> emoji, group |-> group, subgroup |-> subgroup]

\* parseEmojiTest(emojiTestText)
EmojiTestEntries ==
    << Entry(POODLE, "Animals & Nature", "animal-mammal"),
       Entry(DOG, "Animals & Nature", "animal-mammal"),
       Entry([KISS EXCEPT !.vs = TRUE], "People & Body", "family"),
       Entry(WAVING_HAND, "People & Body", "hand-fingers-open"),
       Entry(WithTone(WAVING_HAND), "People & Body", "hand-fingers-open"),
       Entry(BEVERAGE_BOX, "Food & Drink", "drink"),
       Entry(GRINNING, "Smileys & Emotion", "face-smiling"),
       Entry(JAPAN, "Flags", "country-flag") >>
    \o [i \in 1..NumOthers |-> Entry(Other(i), "Objects", "other-object")]

Annotation(tts, keywords) == [tts |-> tts, keywords |-> keywords]

\* the keywords the annotations may give to the poodle, the dog and the kiss
FreeKeywords == << <<"pet">>, <<"hound">>, <<"kiss">> >>

KeywordLists ==
    {SelectSeq(FreeKeywords, LAMBDA k : k \in chosen) :
        chosen \in {c \in SUBSET SeqToSet(FreeKeywords) :
                        Cardinality(c) <= MaxKeywords}}

\* the keywords of the other symbols: "thing" on all of them, "stuff" on
\* ten, "gear" on nine, "juice" on one
otherKeywords(i) ==
    << <<"thing">> >>
    \o (IF i <= 10 THEN << <<"stuff">> >> ELSE <<>>)
    \o (IF i <= 9 THEN << <<"gear">> >> ELSE <<>>)
    \o (IF i = 1 THEN << <<"juice">> >> ELSE <<>>)

\* parseAnnotations of the four annotation files
LocaleData(poodle, dog, dogNamed, kiss, kissNamed, dogVi) ==
    [en |->
       [annotations |->
          [e \in {POODLE, DOG, KISS, WAVING_HAND, BEVERAGE_BOX, GRINNING, JAPAN}
                 \cup {Other(i) : i \in 1..NumOthers} |->
             IF e = POODLE THEN Annotation(<<"poodle">>, poodle \o << <<"thing">> >>)
             ELSE IF e = DOG
             THEN Annotation(IF dogNamed THEN <<"dog">> ELSE <<>>,
                             dog \o << <<"stuff">>, <<"gear">> >>)
             ELSE IF e = KISS
             THEN Annotation(IF kissNamed THEN <<"kiss">> ELSE <<>>, kiss)
             ELSE IF e = WAVING_HAND
             THEN Annotation(<<"waving", "hand">>, << <<"wave">> >>)
             ELSE IF e = BEVERAGE_BOX
             THEN Annotation(<<"beverage", "box">>, << <<"juice">> >>)
             ELSE IF e = GRINNING
             THEN Annotation(<<"grinning", "face">>, << <<"smile">> >>)
             ELSE IF e = JAPAN
             THEN Annotation(<<"flag:", "Japan">>, << <<"japan">> >>)
             ELSE Annotation(<<"item", ToString(e.no)>>, otherKeywords(e.no))],
        derived |->
          [e \in {DOG, WithTone(WAVING_HAND)} |->
             IF e = DOG
             THEN Annotation(IF dogNamed THEN <<"Hound">> ELSE <<>>, <<>>)
             ELSE Annotation(<<"waving", "hand", "light">>,
                             << <<"wave">>, <<"light">> >>)]],
     vi |->
       [annotations |->
          [e \in {POODLE, DOG, GRINNING} |->
             IF e = POODLE THEN Annotation(<<>>, << <<"cho">> >>)
             ELSE IF e = DOG
             THEN Annotation(<<>>, IF dogVi THEN << <<"cho">> >> ELSE <<>>)
             ELSE Annotation(<<"cuoi">>, <<>>)],
        derived |-> [e \in {WithTone(WAVING_HAND)} |-> NoAnnotation]]]

LocaleDatas ==
    {LocaleData(poodle, dog, dogNamed, kiss, kissNamed, dogVi) :
        poodle \in KeywordLists, dog \in KeywordLists, kiss \in KeywordLists,
        dogNamed \in BOOLEAN, kissNamed \in BOOLEAN, dogVi \in BOOLEAN}

\* main ---------------------------------------------------------------------

\* the sources are fetched and parsed
LoadSources(L) ==
    /\ buildPc = "idle"
    /\ sourceEntries' = EmojiTestEntries
    /\ localeData' = L
    /\ buildPc' = "loaded"
    /\ UNCHANGED <<screens, maps, request, topicSession, result, outputFile, exitCode>>

\* buildEmojiDatabase(entries, localeData); an exception ends main in its
\* catch handler
BuildDatabase ==
    /\ buildPc = "loaded"
    /\ LET built == buildEmojiDatabase(sourceEntries, localeData)
       IN IF built = Undefined
          THEN /\ buildPc' = "failed"
               /\ exitCode' = 1
               /\ result' = result
          ELSE /\ buildPc' = "built"
               /\ result' = built
               /\ exitCode' = exitCode
    /\ UNCHANGED <<screens, maps, request, topicSession, sourceEntries, localeData, outputFile>>

\* writeOutput(result)
WriteOutput ==
    /\ buildPc = "built"
    /\ outputFile' = [EMOJI_DATABASE |-> result.database,
                      NAME_TO_EMOJI |-> result.nameToEmoji,
                      EMOJI_TO_KEYWORDS |-> result.emojiToKeywords,
                      EMOJI_TO_CATEGORY |-> result.emojiToCategory,
                      SHORTEST_EMOJI_NAMES |-> result.shortestEmojiNames]
    /\ buildPc' = "written"
    /\ UNCHANGED <<screens, maps, request, topicSession, sourceEntries, localeData, result,
                   exitCode>>

InitBuild == Init /\ db = CHOOSE d \in WordDatabases : TRUE

NextBuild ==
    \/ \E L \in LocaleDatas : LoadSources(L)
    \/ BuildDatabase
    \/ WriteOutput

SpecBuild == InitBuild /\ [][NextBuild]_vars

-----------------------------------------------------------------------------
(* The client components.  The state of a component is a record of its
   useState cells, with the timers setTimeout has pending; an event handler
   runs to its end between two renders, so it is one step. *)

\* most handleStart calls of Home in flight at a time
MaxStarts == 2

\* most success timers of Home pending at a time
MaxTimers == 2

ItemIds == {"target", "d1", "d2"}

\* no component is mounted
NoPage == gameClient = NoContent /\ home = NoContent /\ topicPlay = NoContent

\* items.map(item => ({ ...item, status: "normal" }))
withStatus(its) ==
    [i \in DOMAIN its |->
        [id |-> its[i].id, value |-> its[i].value,
         isCorrect |-> its[i].isCorrect, status |-> "normal"]]

\* the sequence without its i-th element
RemoveAt(s, i) == SubSeq(s, 1, i - 1) \o SubSeq(s, i + 1, Len(s))

\* the array the find page hands to shuffle
pageItems(data) ==
    << [id |-> "target", value |-> data.targetValue, isCorrect |-> TRUE],
       [id |-> "d1", value |-> data.distractors[1], isCorrect |-> FALSE],
       [id |-> "d2", value |-> data.distractors[2], isCorrect |-> FALSE] >>

FindWords == {Str("dog"), Str("red")}

\* the find page renders GameClient for a word with content (content found
\* locally is what generateGameContent resolves to)
MountGameClient(w) ==
    /\ NoPage
    /\ \E data \in generateLocalContent(w) \ {NoContent} :
         \E initialItems \in ShuffleTake(pageItems(data), 3) :
            gameClient' = [screen |-> "game", items |-> withStatus(initialItems),
                           timers |-> 0]
    /\ UNCHANGED <<maps, request, topicSession, pipeline, home, topicPlay>>

\* GameClient's handleItemClick without the test for a correct answer
GameClient_handleItemClick_NoGuard(id) ==
    /\ gameClient # NoContent
    /\ gameClient.screen = "game"
    /\ LET its == gameClient.items
           clicked == FirstIndex(its, LAMBDA item : item.id = id)
       IN IF clicked = 0 \/ its[clicked].status = "wrong"
          THEN gameClient' = gameClient
          ELSE IF its[clicked].isCorrect
          THEN gameClient' =
                 [gameClient EXCEPT !.items[clicked].status = "correct",
                                    !.timers = @ + 1]
          ELSE gameClient' =
                 [gameClient EXCEPT !.items[clicked].status = "wrong"]
    /\ UNCHANGED <<maps, request, topicSession, pipeline, home, topicPlay>>

\* GameClient's handleItemClick
GameClient_handleItemClick(id) ==
    /\ gameClient # NoContent
    /\ gameClient.screen = "game"
    /\ LET its == gameClient.items
           hasCorrectAnswer == \E i \in DOMAIN its : its[i].status = "correct"
           clicked == FirstIndex(its, LAMBDA item : item.id = id)
       IN IF hasCorrectAnswer
          THEN gameClient' = gameClient
          ELSE IF clicked = 0 \/ its[clicked].status = "wrong"
          THEN gameClient' = gameClient
          ELSE IF its[clicked].isCorrect
          THEN gameClient' =
                 [gameClient EXCEPT !.items[clicked].status = "correct",
                                    !.timers = @ + 1]
          ELSE gameClient' =
                 [gameClient EXCEPT !.items[clicked].status = "wrong"]
    /\ UNCHANGED <<maps, request, topicSession, pipeline, home, topicPlay>>

\* the callback of GameClient's setTimeout
GameClient_timeout ==
    /\ gameClient # NoContent
    /\ gameClient.timers > 0
    /\ gameClient' = [gameClient EXCEPT !.screen = "success", !.timers = @ - 1]
    /\ UNCHANGED <<maps, request, topicSession, pipeline, home, topicPlay>>

\* GameClient's handleBack: router.push("/") leaves the page
GameClient_handleBack ==
    /\ gameClient # NoContent
    /\ gameClient.screen = "game"
    /\ gameClient' = NoContent
    /\ UNCHANGED <<maps, request, topicSession, pipeline, home, topicPlay>>

\* GameClient's handlePlayAgain and handleSuggestionClick, on the success
\* screen: router.push leaves the page
GameClient_handlePlayAgain ==
    /\ gameClient # NoContent
    /\ gameClient.screen = "success"
    /\ gameClient' = NoContent
    /\ UNCHANGED <<maps, request, topicSession, pipeline, home, topicPlay>>

\* what the input field of Home is set to
HomeWords == {Str(""), Padded(Str("")), Str("dog")}

\* what /api/generate answers with when it answers 200
ApiResponses ==
    { Content("emoji", DOG_FACE, <<LION, ROSE>>),
      Content("color", Str("red"), <<Str("blue"), Str("green")>>) }

\* the array handleStart of Home hands to shuffle
newItems(data) ==
    << [id |-> "target", value |-> data.targetValue, isCorrect |-> TRUE,
        status |-> "normal"],
       [id |-> "d1", value |-> data.distractors[1], isCorrect |-> FALSE,
        status |-> "normal"],
       [id |-> "d2", value |-> data.distractors[2], isCorrect |-> FALSE,
        status |-> "normal"] >>

\* the legacy page is opened
MountHome ==
    /\ NoPage
    /\ home' = [screen |-> "input", inputWord |-> Str(""), errorMsg |-> "",
                gameData |-> NoContent, items |-> <<>>,
                calls |-> <<>>, timers |-> 0]
    /\ UNCHANGED <<maps, request, topicSession, pipeline, gameClient, topicPlay>>

\* InputScreen is rendered
InputShown == home # NoContent /\ home.screen = "input"

\* GameScreen of Home is rendered
GameShown == home # NoContent /\ home.screen = "game" /\ home.gameData # NoContent

\* SuccessScreen of Home is rendered
SuccessShown ==
    home # NoContent /\ home.screen = "success" /\ home.gameData # NoContent

\* onInputChange={setInputWord}
Home_setInputWord(w) ==
    /\ InputShown
    /\ home' = [home EXCEPT !.inputWord = w]
    /\ UNCHANGED <<maps, request, topicSession, pipeline, gameClient, topicPlay>>

\* handleStart up to await unlockAudio()
Home_handleStart ==
    /\ InputShown
    /\ Len(home.calls) < MaxStarts
    /\ IF trim(home.inputWord) = Str("")
       THEN home' = home
       ELSE home' = [home EXCEPT
                        !.calls = Append(@, [at |-> "unlockAudio",
                                             inputWord |-> home.inputWord])]
    /\ UNCHANGED <<maps, request, topicSession, pipeline, gameClient, topicPlay>>

\* handleStart from await unlockAudio() to await fetch(...)
Home_audioUnlocked(c) ==
    /\ home # NoContent
    /\ c \in DOMAIN home.calls
    /\ home.calls[c].at = "unlockAudio"
    /\ home' = [home EXCEPT !.screen = "loading", !.errorMsg = "",
                            !.calls[c].at = "fetch"]
    /\ UNCHANGED <<maps, request, topicSession, pipeline, gameClient, topicPlay>>

\* handleStart after the fetch answered 200 with data
Home_fetchResolved(c, data) ==
    /\ home # NoContent
    /\ c \in DOMAIN home.calls
    /\ home.calls[c].at = "fetch"
    /\ \E shuffled \in ShuffleTake(newItems(data), 3) :
          home' = [home EXCEPT
                      !.gameData = [type |-> data.type,
                                    targetValue |-> data.targetValue],
                      !.items = shuffled,
                      !.screen = "game",
                      !.calls = RemoveAt(@, c)]
    /\ UNCHANGED <<maps, request, topicSession, pipeline, gameClient, topicPlay>>

\* handleStart after the fetch failed or did not answer 200: the catch block
Home_fetchFailed(c) ==
    /\ home # NoContent
    /\ c \in DOMAIN home.calls
    /\ home.calls[c].at = "fetch"
    /\ home' = [home EXCEPT !.errorMsg = "Try a different word.",
                            !.screen = "input",
                            !.calls = RemoveAt(@, c)]
    /\ UNCHANGED <<maps, request, topicSession, pipeline, gameClient, topicPlay>>

\* Home's handleItemClick
Home_handleItemClick(id) ==
    /\ GameShown
    /\ LET its == home.items
           hasCorrectAnswer == \E i \in DOMAIN its : its[i].status = "correct"
           clicked == FirstIndex(its, LAMBDA item : item.id = id)
       IN IF hasCorrectAnswer
          THEN home' = home
          ELSE IF clicked = 0 \/ its[clicked].status = "wrong"
          THEN home' = home
          ELSE IF its[clicked].isCorrect
          THEN /\ home.timers < MaxTimers
               /\ home' = [home EXCEPT !.items[clicked].status = "correct",
                                       !.timers = @ + 1]
          ELSE home' = [home EXCEPT !.items[clicked].status = "wrong"]
    /\ UNCHANGED <<maps, request, topicSession, pipeline, gameClient, topicPlay>>

\* the callback of Home's setTimeout
Home_timeout ==
    /\ home # NoContent
    /\ home.timers > 0
    /\ home' = [home EXCEPT !.screen = "success", !.timers = @ - 1]
    /\ UNCHANGED <<maps, request, topicSession, pipeline, gameClient, topicPlay>>

\* resetGame, the onBack of the game screen and the onPlayAgain of the
\* success screen
resetGame ==
    /\ GameShown \/ SuccessShown
    /\ home' = [home EXCEPT !.screen = "input", !.inputWord = Str(""),
                            !.errorMsg = "", !.gameData = NoContent,
                            !.items = <<>>]
    /\ UNCHANGED <<maps, request, topicSession, pipeline, gameClient, topicPlay>>

\* the play page renders TopicSession with the rounds generateTopicSession
\* returns for the topic, if it returns any
MountTopicSession(id, length) ==
    /\ NoPage
    /\ getTopicById(id) # Undefined
    /\ \E picked \in getRandomWordsFromTopic(id, length) :
          /\ topics' = [topics EXCEPT ![topicIndex(id)].words = picked.stored]
          /\ \E rounds \in roundsOfWords(picked.words) :
                /\ sessionResult(rounds) # NoContent
                /\ topicPlay' =
                      [screen |-> "game", currentRound |-> 0,
                       correctCount |-> 0,
                       items |-> withStatus(rounds[1].items),
                       rounds |-> rounds, timers |-> <<>>]
    /\ UNCHANGED <<maps, request, pipeline, gameClient, home, sessionPc, topicId,
                   sessionLength, session>>

\* TopicSession's handleItemClick without the test for a correct answer
TopicSession_handleItemClick_NoGuard(id) ==
    /\ topicPlay # NoContent
    /\ topicPlay.screen = "game"
    /\ LET its == topicPlay.items
           clicked == FirstIndex(its, LAMBDA item : item.id = id)
       IN IF clicked = 0 \/ its[clicked].status = "wrong"
          THEN topicPlay' = topicPlay
          ELSE IF its[clicked].isCorrect
          THEN topicPlay' =
                 [topicPlay EXCEPT
                     !.correctCount = @ + 1,
                     !.items[clicked].status = "correct",
                     !.timers = Append(@, topicPlay.currentRound)]
          ELSE topicPlay' =
                 [topicPlay EXCEPT !.items[clicked].status = "wrong"]
    /\ UNCHANGED <<maps, request, topicSession, pipeline, gameClient, home>>

\* TopicSession's handleItemClick; the timer keeps the currentRound of the
\* render the click happened in
TopicSession_handleItemClick(id) ==
    /\ topicPlay # NoContent
    /\ topicPlay.screen = "game"
    /\ LET its == topicPlay.items
           hasCorrectAnswer == \E i \in DOMAIN its : its[i].status = "correct"
           clicked == FirstIndex(its, LAMBDA item : item.id = id)
       IN IF hasCorrectAnswer
          THEN topicPlay' = topicPlay
          ELSE IF clicked = 0 \/ its[clicked].status = "wrong"
          THEN topicPlay' = topicPlay
          ELSE IF its[clicked].isCorrect
          THEN topicPlay' =
                 [topicPlay EXCEPT
                     !.correctCount = @ + 1,
                     !.items[clicked].status = "correct",
                     !.timers = Append(@, topicPlay.currentRound)]
          ELSE topicPlay' =
                 [topicPlay EXCEPT !.items[clicked].status = "wrong"]
    /\ UNCHANGED <<maps, request, topicSession, pipeline, gameClient, home>>

\* the callback of TopicSession's setTimeout, for the t-th pending timer
TopicSession_timeout(t) ==
    /\ topicPlay # NoContent
    /\ t \in DOMAIN topicPlay.timers
    /\ LET currentRound == topicPlay.timers[t]
           totalRounds == Len(topicPlay.rounds)
       IN IF currentRound + 1 < totalRounds
          THEN topicPlay' =
                 [topicPlay EXCEPT
                     !.currentRound = @ + 1,
                     !.items = withStatus(topicPlay.rounds[currentRound + 2].items),
                     !.timers = RemoveAt(@, t)]
          ELSE topicPlay' =
                 [topicPlay EXCEPT !.screen = "summary",
                                   !.timers = RemoveAt(@, t)]
    /\ UNCHANGED <<maps, request, topicSession, pipeline, gameClient, home>>

\* the links of the summary (Play Again, All Topics) leave the page
TopicSession_leave ==
    /\ topicPlay # NoContent
    /\ topicPlay.screen = "summary"
    /\ topicPlay' = NoContent
    /\ UNCHANGED <<maps, request, topicSession, pipeline, gameClient, home>>

\* the ids of the items TopicSession shows
RoundItemIds ==
    IF topicPlay = NoContent THEN {}
    ELSE {topicPlay.items[i].id : i \in DOMAIN topicPlay.items}

InitScreens == Init /\ db = CHOOSE d \in WordDatabases : TRUE

NextScreens ==
    \/ \E w \in FindWords : MountGameClient(w)
    \/ \E id \in ItemIds : GameClient_handleItemClick(id)
    \/ GameClient_timeout
    \/ GameClient_handleBack
    \/ GameClient_handlePlayAgain
    \/ MountHome
    \/ \E w \in HomeWords : Home_setInputWord(w)
    \/ Home_handleStart
    \/ \E c \in 1..MaxStarts : Home_audioUnlocked(c)
    \/ \E c \in 1..MaxStarts, data \in ApiResponses : Home_fetchResolved(c, data)
    \/ \E c \in 1..MaxStarts : Home_fetchFailed(c)
    \/ \E id \in ItemIds : Home_handleItemClick(id)
    \/ Home_timeout
    \/ resetGame
    \/ \E id \in {"animal-friends", "invalid-topic"}, length \in SessionLengths :
          MountTopicSession(id, length)
    \/ \E id \in RoundItemIds : TopicSession_handleItemClick(id)
    \/ \E t \in 1..MaxSessionLength : TopicSession_timeout(t)
    \/ TopicSession_leave

SpecScreens == InitScreens /\ [][NextScreens]_vars

-----------------------------------------------------------------------------
(* Notions the properties are stated with, read off the database itself *)

\* the word as generateLocalContent looks it up
NormalizedWord == trim(toLowerCase(word))

\* the symbols listed under category c
CategorySymbols(c) ==
    {en.item.emoji : en \in {x \in SeqToSet(allEntriesOf(db)) : x.category = c}}

\* the symbols the properties range over: those of the database with and
\* without variation selector, and one that is in no database
SymbolUniverse ==
    LET stored == {it.emoji : it \in SeqToSet(allItemsOf(db))}
    IN {normalizeEmoji(e) : e \in stored} \cup {WithVS(e) : e \in stored}
       \cup {QUESTION_MARK, WithVS(QUESTION_MARK)}

\* e is in the database, whatever its variation selector
Present(e) ==
    \E it \in SeqToSet(allItemsOf(db)) : normalizeEmoji(it.emoji) = normalizeEmoji(e)

\* the names of e in the database, lower-cased
LowerNames(e) ==
    UNION {{toLowerCase(n) : n \in SeqToSet(it.names)} :
            it \in {x \in SeqToSet(allItemsOf(db)) :
                       normalizeEmoji(x.emoji) = normalizeEmoji(e)}}

\* number of symbols of category c that are neither e nor similar to e
NumValidCandidates(e, c) ==
    Cardinality({d \in CategorySymbols(c) :
                    /\ normalizeEmoji(d) # normalizeEmoji(e)
                    /\ ~areVisuallySimilar(e, d)})

\* the request went through the name lookup and produced content
LocalEmojiContent ==
    /\ pc # "idle"
    /\ localContent # NoContent
    /\ CssColorsGet(NormalizedWord) = Undefined

-----------------------------------------------------------------------------
(* Local content generator *)

\* C1: content that generateLocalContent produces for a word resolved by
\* findEmojiByName has type emoji, the resolved symbol as target, and two
\* distractors that are symbols of the target's category, differ from the
\* target after variation-selector normalization and are not visually
\* similar to the target.
C1_NameLookupContent ==
    LocalEmojiContent =>
        LET match == findEmojiByName(NormalizedWord)
        IN /\ match # NoContent
           /\ localContent.type = "emoji"
           /\ localContent.targetValue = match.emoji
           /\ Len(localContent.distractors) = 2
           /\ \A i \in 1..2 :
                LET d == localContent.distractors[i]
                IN /\ d \in CategorySymbols(match.category)
                   /\ normalizeEmoji(d) # normalizeEmoji(match.emoji)
                   /\ ~areVisuallySimilar(match.emoji, d)

\* a name-lookup content whose category also holds a symbol similar to the
\* target, which the filter had to leave out
C1_Witness ==
    /\ LocalEmojiContent
    /\ \E d \in CategorySymbols(getCategoryByEmoji(localContent.targetValue)) :
          /\ normalizeEmoji(d) # normalizeEmoji(localContent.targetValue)
          /\ areVisuallySimilar(localContent.targetValue, d)

\* C2: the two distractors of an emoji content produced by
\* generateLocalContent are not visually similar to each other.
C2_DistractorsNotSimilar ==
    LocalEmojiContent =>
        ~areVisuallySimilar(localContent.distractors[1],
                            localContent.distractors[2])


\* the normalized word is an entry of the color dictionary itself
IsColorEntry == ~NormalizedWord.vs /\ NormalizedWord.base \in CssColorKeys

\* the similarity groups that contain color c
GroupsOf(c) == {i \in DOMAIN COLOR_GROUPS : GroupIncludes(COLOR_GROUPS[i], c)}

\* C3: for a word of the color dictionary generateLocalContent returns
\* type color with the canonical color as target, and no similarity group
\* of COLOR_GROUPS contains two of target, first and second distractor.
C3_ColorsInDifferentGroups ==
    (pc # "idle" /\ IsColorEntry) =>
        /\ localContent # NoContent
        /\ localContent.type = "color"
        /\ localContent.targetValue = CssColorsGet(NormalizedWord)
        /\ Len(localContent.distractors) = 2
        /\ LET t == localContent.targetValue
               d1 == localContent.distractors[1]
               d2 == localContent.distractors[2]
           IN /\ GroupsOf(t) \cap GroupsOf(d1) = {}
              /\ GroupsOf(t) \cap GroupsOf(d2) = {}
              /\ GroupsOf(d1) \cap GroupsOf(d2) = {}

-----------------------------------------------------------------------------
(* generateGameContent *)

\* the second and third value of a content differ from each other and from
\* the first
AllDistinct(c) ==
    /\ c.distractors[1] # c.distractors[2]
    /\ c.distractors[1] # c.targetValue
    /\ c.distractors[2] # c.targetValue

\* C4 as stated: every content generateGameContent returns, from the local
\* generator or from the service after the corrector, has exactly two
\* distractors, distinct from each other and from the target.
C4_ReturnedAllDistinct ==
    (pc = "done" /\ ret # NoContent) =>
        /\ Len(ret.distractors) = 2
        /\ AllDistinct(ret)

\* C4 amended: every content generateGameContent returns has exactly two
\* distractors; when it comes from the local generator they are distinct
\* from each other and from the target.
C4_TwoDistractorsLocalDistinct ==
    (pc = "done" /\ ret # NoContent) =>
        /\ Len(ret.distractors) = 2
        /\ localContent # NoContent => AllDistinct(ret)

\* a local color content has been returned (the palette lists red, blue,
\* green and yellow several times)
C4_Witness ==
    /\ pc = "done"
    /\ localContent # NoContent
    /\ ret = localContent
    /\ ret.type = "color"

\* C5: the local generator is consulted first and its content, if any, is
\* returned without calling the service; the service is called only after a
\* local miss, and what it delivers is returned as the corrector leaves it.
C5_LocalFirstThenCorrectedFallback ==
    /\ pc # "idle" => localContent \in generateLocalContent(word)
    /\ (pc # "idle" /\ localContent # NoContent) =>
          /\ pc = "done"
          /\ ret = localContent
          /\ ~llmInvoked
          /\ output = NoContent
    /\ llmInvoked => localContent = NoContent
    /\ output # NoContent => llmInvoked
    /\ (pc = "done" /\ output # NoContent) =>
          ret \in fixVisuallySimilarEmojis(output)

\* a service output came back changed by the corrector
C5_Witness ==
    /\ pc = "done"
    /\ llmInvoked
    /\ output # NoContent
    /\ ret # output

\* C6: when the service call fails (network error, timeout, rejected by the
\* schema, no output) generateGameContent returns null, and no exception
\* ever leaves generateGameContent.
C6_FailureReturnsNull ==
    /\ ~threw
    /\ failure # "none" => (pc = "done" /\ ret = NoContent)

\* the service call timed out and the request is over
C6_Witness ==
    /\ pc = "done"
    /\ failure = "timeout"
    /\ llmInvoked

\* C7: generateLocalContent does not throw, returns no content with fewer
\* than two distractors, returns null for a word that is neither an entry of
\* the color dictionary nor a resolvable name, and returns null when the
\* resolved symbol has fewer than two valid candidates in its category.
C7_LocalNullOrTwoDistractors ==
    pc # "idle" =>
        LET match == findEmojiByName(NormalizedWord)
        IN /\ ~threw
           /\ localContent # NoContent => Len(localContent.distractors) >= 2
           /\ (~IsColorEntry /\ match = NoContent) => localContent = NoContent
           /\ (/\ ~IsColorEntry
               /\ match # NoContent
               /\ NumValidCandidates(match.emoji, match.category) < 2)
                  => localContent = NoContent

-----------------------------------------------------------------------------
(* Similarity oracle *)

\* the names of e in the database, as stored
StoredNames(e) ==
    UNION {SeqToSet(it.names) :
            it \in {x \in SeqToSet(allItemsOf(db)) :
                       normalizeEmoji(x.emoji) = normalizeEmoji(e)}}

\* the symbols of a content
SymbolsOf(c) ==
    IF c = NoContent THEN {}
    ELSE IF c.type # "emoji" THEN {}
    ELSE {c.targetValue} \cup SeqToSet(c.distractors)

\* The lookup maps are the same in every state of a behaviour, so the
\* oracle is compared on all pairs of SymbolUniverse between two requests,
\* and on the symbols of the request while one is under way.
CheckedSymbols ==
    IF pc = "idle" THEN SymbolUniverse
    ELSE SymbolsOf(localContent) \cup SymbolsOf(output) \cup SymbolsOf(ret)

-----------------------------------------------------------------------------
(* Corrector *)

\* the corrector found a violation in the service output and the target's
\* category holds two symbols or more that can replace the distractors
RepairableOutput ==
    /\ pc = "done"
    /\ output # NoContent
    /\ output.type = "emoji"
    /\ needsFix(output)
    /\ getCategoryByEmoji(output.targetValue) # NoCategory
    /\ NumValidCandidates(output.targetValue,
                          getCategoryByEmoji(output.targetValue)) >= 2

\* C10: when the corrector detects a violation and the target's category is
\* known and holds at least two symbols that are neither the target nor
\* similar to it, the result keeps type and target, and its two distractors
\* are distinct symbols of that category, neither equal nor similar to the
\* target.
C10_CategoryRepair ==
    RepairableOutput =>
        LET target == output.targetValue
        IN /\ ret.type = output.type
           /\ ret.targetValue = target
           /\ Len(ret.distractors) = 2
           /\ ret.distractors[1] # ret.distractors[2]
           /\ \A i \in 1..2 :
                LET d == ret.distractors[i]
                IN /\ d \in CategorySymbols(getCategoryByEmoji(target))
                   /\ normalizeEmoji(d) # normalizeEmoji(target)
                   /\ ~areVisuallySimilar(target, d)

\* a repairable output whose distractors were replaced
C10_Witness ==
    /\ RepairableOutput
    /\ ret.distractors # output.distractors
    /\ \E d \in CategorySymbols(getCategoryByEmoji(output.targetValue)) :
          /\ normalizeEmoji(d) # normalizeEmoji(output.targetValue)
          /\ areVisuallySimilar(output.targetValue, d)

\* the corrector was applied to a service output
Corrected == pc = "done" /\ output # NoContent

\* none of the corrector's three checks trips on content c: neither
\* distractor is similar to the target, nor are the two to each other
NoCheckTrips(c) ==
    /\ ~areVisuallySimilar(c.targetValue, c.distractors[1])
    /\ ~areVisuallySimilar(c.targetValue, c.distractors[2])
    /\ ~areVisuallySimilar(c.distractors[1], c.distractors[2])

\* C11: fixVisuallySimilarEmojis returns its input unchanged when the type
\* is color, and when the type is emoji and none of the three checks trips.
C11_UnchangedWithoutViolation ==
    (Corrected /\ (output.type = "color" \/ NoCheckTrips(output))) =>
        ret = output

\* an emoji output of three symbols of the database, two of them of the same
\* category as the target, passed the three checks
C11_Witness ==
    /\ Corrected
    /\ output.type = "emoji"
    /\ NoCheckTrips(output)
    /\ \A e \in SymbolsOf(output) : Present(e)
    /\ NumValidCandidates(output.targetValue,
                          getCategoryByEmoji(output.targetValue)) >= 2
    /\ ret = output

\* C12: fixVisuallySimilarEmojis is idempotent: applied to any of its
\* possible results it returns that result again.
C12_Idempotent ==
    Corrected => fixVisuallySimilarEmojis(ret) = {ret}

\* C13: when fixVisuallySimilarEmojis replaces the distractors of a content
\* whose two distractors were similar to each other, the two distractors of
\* the result are not similar to each other.
C13_RepairedNotSimilarToEachOther ==
    (/\ Corrected
     /\ output.type = "emoji"
     /\ areVisuallySimilar(output.distractors[1], output.distractors[2])
     /\ ret # output)
        => ~areVisuallySimilar(ret.distractors[1], ret.distractors[2])

-----------------------------------------------------------------------------
(* Normalization of the word *)

\* C14: generateLocalContent depends only on the trimmed, lower-cased word:
\* the word as given and its normalized form have the same possible results
\* (both null, or same type, target and distractor pairs), and a word of the
\* color dictionary has the same possible results as its canonical color.
C14_DependsOnNormalizedWord ==
    pc # "idle" =>
        LET asGiven == generateLocalContent(word)
        IN /\ localContent \in asGiven
           /\ asGiven = generateLocalContent(NormalizedWord)
           /\ IsColorEntry =>
                 asGiven = generateLocalContent(CssColorsGet(NormalizedWord))

\* a translated color written in capitals with white space around it gave
\* content with the canonical name as target
C14_Witness ==
    /\ pc = "done"
    /\ word.caps
    /\ word.pad
    /\ IsColorEntry
    /\ localContent # NoContent
    /\ localContent.targetValue # NormalizedWord

-----------------------------------------------------------------------------
(* Internal-only categories *)

\* symbol e is listed under an internal-only category
IsInternalSymbol(e) == isInternalCategory(getCategoryByEmoji(e))

\* C15: a symbol of an internal-only category is never the result of a
\* direct name lookup and never a distractor of a content produced by
\* generateLocalContent or by the corrector's category-based repair.
C15_InternalNeverUsed ==
    /\ LocalEmojiContent =>
          /\ ~IsInternalSymbol(localContent.targetValue)
          /\ \A i \in DOMAIN localContent.distractors :
                ~IsInternalSymbol(localContent.distractors[i])
    /\ RepairableOutput =>
          \A i \in DOMAIN ret.distractors : ~IsInternalSymbol(ret.distractors[i])

-----------------------------------------------------------------------------
(* Validation of the service's answer *)

\* the answer has the GameContent shape: type color or emoji, a string as
\* target, exactly two distractors, both strings
Conforms(raw) ==
    /\ raw.type \in {"color", "emoji"}
    /\ IsString(raw.targetValue)
    /\ Len(raw.distractors) = 2
    /\ \A i \in DOMAIN raw.distractors : IsString(raw.distractors[i])

\* the answer is rejected as a whole and the request ends with null
Rejected == failure = "schema" /\ output = NoContent /\ ret = NoContent

\* C16 as stated: an answer of the service that does not have the
\* GameContent shape is rejected as a whole and generateGameContent returns
\* null; it is never accepted after being modified or truncated.
C16_NonConformingRejected ==
    (pc = "done" /\ response # NoContent /\ ~Conforms(response)) => Rejected

\* C16 amended: an answer with a type other than color and emoji, a target
\* that is no string, a distractor that is no string or fewer than two
\* distractors is rejected as a whole and generateGameContent returns null;
\* an answer with more than two distractors, all strings, is accepted with
\* its first two distractors.
C16_MalformedRejectedLongTruncated ==
    (pc = "done" /\ response # NoContent /\ ~Conforms(response)) =>
        IF /\ response.type \in {"color", "emoji"}
           /\ IsString(response.targetValue)
           /\ \A i \in DOMAIN response.distractors :
                 IsString(response.distractors[i])
           /\ Len(response.distractors) > 2
        THEN /\ failure = "none"
             /\ output = Content(response.type, response.targetValue,
                                 <<response.distractors[1],
                                   response.distractors[2]>>)
             /\ ret \in fixVisuallySimilarEmojis(output)
        ELSE Rejected

\* an answer with three distractors was accepted with the first two
C16_Witness ==
    /\ pc = "done"
    /\ response # NoContent
    /\ Len(response.distractors) = 3
    /\ output # NoContent
    /\ Len(output.distractors) = 2

-----------------------------------------------------------------------------
(* Termination of the call *)

\* C17: the call to the service is bounded by a timeout: every call of
\* generateGameContent returns, also when the service never answers; that
\* is, a call that has not returned can always take a further step.
C17_CallAlwaysReturns ==
    pc \in {"idle", "done"} \/ ENABLED Next

-----------------------------------------------------------------------------
(* Topic sessions *)

\* generateTopicSession has returned a list of rounds
SessionReturned == sessionPc = "done" /\ session # NoContent

\* the words of the topic the session was generated for
TopicWords == SeqToSet(getTopicById(topicId).words)

\* C18: every round generateTopicSession returns has exactly 3 items whose
\* values are the target and the two distractors, exactly one item is
\* marked correct and its value is the round's target, and the round's two
\* distractors are distinct.
C18_RoundsWellFormed ==
    SessionReturned =>
        \A r \in DOMAIN session.rounds :
            LET round == session.rounds[r]
                correct == {i \in DOMAIN round.items : round.items[i].isCorrect}
            IN /\ Len(round.items) = 3
               /\ \E f \in [1..3 -> 1..3] :
                     /\ \A i, j \in 1..3 : i # j => f[i] # f[j]
                     /\ round.items[f[1]].value = round.targetValue
                     /\ round.items[f[2]].value = round.distractors[1]
                     /\ round.items[f[3]].value = round.distractors[2]
               /\ Cardinality(correct) = 1
               /\ \A i \in correct : round.items[i].value = round.targetValue
               /\ Len(round.distractors) = 2
               /\ round.distractors[1] # round.distractors[2]

\* a session of two rounds whose first round shows the target last
C18_Witness ==
    /\ SessionReturned
    /\ Len(session.rounds) = 2
    /\ session.rounds[1].items[3].isCorrect
    /\ session.rounds[1].items[3].value = session.rounds[1].targetValue

-----------------------------------------------------------------------------
(* Queries leave the loaded data alone *)

\* the content of a round, as generateLocalContent returned it
RoundContent(round) ==
    Content(round.type, round.targetValue, round.distractors)

\* C20: no runtime query mutates the loaded database, the lookup maps, the
\* word lists of the topics or the content handed to the corrector; so,
\* whatever else ran in between, the result of a request or of a session is
\* one of the results the loaded data allows.
C20_QueriesMutateNothing ==
    /\ [](/\ Corrected => output = SchemaParse(response)
          /\ pc # "idle" => localContent \in generateLocalContent(word)
          /\ SessionReturned =>
                \A i \in DOMAIN session.rounds :
                    RoundContent(session.rounds[i])
                        \in generateLocalContent(session.rounds[i].word))
    /\ [][maps' = maps /\ topics' = topics]_vars

\* the corrector replaced the distractors of a service output while a
\* session generated in between is still open
C20_Witness ==
    /\ Corrected
    /\ ret # output
    /\ SessionReturned

-----------------------------------------------------------------------------
(* Order of the corrector's repairs *)

\* the corrector found a violation in the emoji output of the service
ViolationFound ==
    /\ Corrected
    /\ output.type = "emoji"
    /\ ~NoCheckTrips(output)

\* the target's category is known and holds two symbols or more that are
\* neither the target nor similar to it
CategoryCanRepair ==
    /\ getCategoryByEmoji(output.targetValue) # NoCategory
    /\ NumValidCandidates(output.targetValue,
                          getCategoryByEmoji(output.targetValue)) >= 2

\* the original distractors that are neither similar nor equal to the target
KeptOriginals ==
    SelectSeq(output.distractors,
              LAMBDA d : /\ ~areVisuallySimilar(output.targetValue, d)
                         /\ d # output.targetValue)

\* C21: on a violation the corrector (a) replaces the distractors by two
\* symbols of the target's category when that is possible, (b) else keeps
\* the first two original distractors that are neither similar nor equal to
\* the target when there are two, (c) else returns the input exactly; it
\* never throws and never returns fewer than two distractors.
C21_RepairOrder ==
    /\ ~threw
    /\ Corrected => Len(ret.distractors) >= 2
    /\ ViolationFound =>
          /\ ret.type = output.type
          /\ ret.targetValue = output.targetValue
          /\ IF CategoryCanRepair
             THEN \A i \in DOMAIN ret.distractors :
                     /\ ret.distractors[i]
                           \in CategorySymbols(getCategoryByEmoji(output.targetValue))
                     /\ ~areVisuallySimilar(output.targetValue, ret.distractors[i])
             ELSE IF Len(KeptOriginals) >= 2
             THEN ret.distractors = <<KeptOriginals[1], KeptOriginals[2]>>
             ELSE ret = output

\* a violation that neither the category nor the original distractors can
\* repair: the output came back as received
C21_Witness ==
    /\ ViolationFound
    /\ ~CategoryCanRepair
    /\ Len(KeptOriginals) < 2
    /\ getCategoryByEmoji(output.targetValue) # NoCategory
    /\ ret = output

-----------------------------------------------------------------------------
(* Color content only for the dictionary's own entries *)

\* C30: local content of type color is returned only for a normalized word
\* that is an own entry of the color dictionary, and its target is then a
\* palette color string; inherited property names never give color content.
C30_ColorOnlyForOwnEntries ==
    (localContent # NoContent /\ localContent.type = "color") =>
        /\ IsColorEntry
        /\ localContent.targetValue \in SeqToSet(CssColorValues)

-----------------------------------------------------------------------------
(* Winner of a keyword *)

\* buildEmojiDatabase has returned
Built == buildPc \in {"built", "written"}

\* candidate a ranks strictly before candidate b for the keyword: it is a
\* name of its symbol and b is not of its own, or they agree on that and a
\* scores higher, or they agree on both and a's label is shorter
RanksBefore(a, b) ==
    \/ a.isNameMatch /\ ~b.isNameMatch
    \/ /\ a.isNameMatch = b.isNameMatch
       /\ a.synonymScore > b.synonymScore
    \/ /\ a.isNameMatch = b.isNameMatch
       /\ a.synonymScore = b.synonymScore
       /\ LabelLength(a.tts) < LabelLength(b.tts)

\* what the candidate records say is what the sources say
CandidateOfSources(keyword, c) ==
    /\ c.tts = getEnglishName(localeData["en"], c.emoji)
    /\ c.isNameMatch = (keyword \in existingNamesOf(localeData, c.emoji))
    /\ c.synonymScore = semanticSimilarity(keyword, toLowerCaseLabel(c.tts))

\* C22: the winner of a keyword is the candidate that no other candidate
\* ranks before under (1) name match, (2) higher score, (3) shorter label,
\* and among equally ranked candidates the first of the list: it is
\* determined by the input.
C22_WinnerRanksFirst ==
    Built =>
        \A keyword \in DOMAIN result.promotionCandidates :
            LET candidates == result.promotionCandidates[keyword]
                best == {i \in DOMAIN candidates :
                            /\ \A j \in DOMAIN candidates :
                                  ~RanksBefore(candidates[j], candidates[i])
                            /\ \A j \in 1..(i - 1) :
                                  RanksBefore(candidates[i], candidates[j])}
            IN /\ \A i \in DOMAIN candidates :
                     CandidateOfSources(keyword, candidates[i])
               /\ Cardinality(best) = 1
               /\ keyword \in DOMAIN result.keywordWinners
               /\ \A i \in best :
                     result.keywordWinners[keyword] = candidates[i].emoji

\* a keyword with two candidates, won by the one of whose symbol it is a
\* name against one with a higher score
C22_Witness ==
    /\ Built
    /\ \E keyword \in DOMAIN result.promotionCandidates :
          \E i, j \in DOMAIN result.promotionCandidates[keyword] :
             LET a == result.promotionCandidates[keyword][i]
                 b == result.promotionCandidates[keyword][j]
             IN /\ a.isNameMatch /\ ~b.isNameMatch
                /\ a.synonymScore < b.synonymScore
                /\ result.keywordWinners[keyword] = a.emoji

-----------------------------------------------------------------------------
(* Keywords of a single symbol *)

\* the symbols of the list that are processed on their own
BaseSymbols ==
    {sourceEntries[i].emoji :
        i \in {j \in DOMAIN sourceEntries :
                  ~isSkinToneVariant(sourceEntries, sourceEntries[j])}}

\* the keywords the annotations of the locales give a symbol, lower-cased
KeywordsIn(locales, emoji) ==
    UNION {{toLowerCaseLabel(k) :
               k \in SeqToSet(collectLocaleKeywords(localeData[l], emoji))}
           : l \in locales}

\* the words a symbol uses: its keywords, its names and the words of its
\* names, in any locale
WordsUsedBy(e) ==
    KeywordsIn(SeqToSet(LOCALES), e)
    \cup existingNamesOf(localeData, e)
    \cup UNION {{<<alphanumeric(n[i])>> : i \in DOMAIN n}
                : n \in existingNamesOf(localeData, e)}

\* the pairs <<word, symbol>> of the whole dataset
Usage == UNION {{<<w, e>> : w \in WordsUsedBy(e)} : e \in BaseSymbols}

\* the symbols that use the word
SymbolsUsing(usage, w) == {u[2] : u \in {v \in usage : v[1] = w}}

\* the items of the built database with their categories
BuiltItems ==
    UNION {{[item |-> result.database[c].items[i],
             category |-> result.database[c].category] :
               i \in DOMAIN result.database[c].items}
           : c \in DOMAIN result.database}

\* the names of a built item, lower-cased
LowerNamesOf(item) == {toLowerCaseLabel(n) : n \in SeqToSet(item.names)}

\* word w is a name of the symbol of built item b and of no other symbol
NameOfItemAlone(items, b, w) ==
    /\ w \in LowerNamesOf(b.item)
    /\ \A o \in items :
          o.item.emoji # b.item.emoji => w \notin LowerNamesOf(o.item)

\* C23 as stated: a keyword, of any locale, used by exactly one symbol is
\* a name of that symbol and of no other, and the name->symbol map resolves
\* it to that symbol.
C23_UniqueKeywordPromoted ==
    Built =>
        LET usage == Usage
            items == BuiltItems
        IN \A b \in items :
              \A w \in KeywordsIn(SeqToSet(LOCALES), b.item.emoji) :
                 SymbolsUsing(usage, w) = {b.item.emoji} =>
                    /\ NameOfItemAlone(items, b, w)
                    /\ w \in DOMAIN result.nameToEmoji
                    /\ result.nameToEmoji[w] = b.item.emoji

\* C23 amended: an English keyword used by exactly one symbol is a name of
\* that symbol and of no other; the name->symbol map resolves it to that
\* symbol when the symbol's category is not internal, and has no entry for
\* it when the category is internal.
C23_UniqueEnglishKeywordPromoted ==
    Built =>
        LET usage == Usage
            items == BuiltItems
        IN \A b \in items :
              \A w \in KeywordsIn({"en"}, b.item.emoji) :
                 SymbolsUsing(usage, w) = {b.item.emoji} =>
                    /\ NameOfItemAlone(items, b, w)
                    /\ IF isInternalCategory(b.category)
                       THEN w \notin DOMAIN result.nameToEmoji
                       ELSE /\ w \in DOMAIN result.nameToEmoji
                            /\ result.nameToEmoji[w] = b.item.emoji

\* the dog alone has the keyword "kiss", for which it is no candidate: the
\* keyword became its name and resolves to it
C23_Witness ==
    /\ Built
    /\ SymbolsUsing(Usage, <<"kiss">>) = {DOG}
    /\ <<"kiss">> \in KeywordsIn({"en"}, DOG)
    /\ <<"kiss">> \notin DOMAIN result.promotionCandidates
    /\ <<"kiss">> \in DOMAIN result.nameToEmoji
    /\ result.nameToEmoji[<<"kiss">>] = DOG

-----------------------------------------------------------------------------
(* Similarity keywords *)

\* the number of symbols of the dataset that use the word
CorpusCount(usage, w) == Cardinality(SymbolsUsing(usage, w))

\* keyword k of the symbol of built item b became a name of it in the
\* promotion loop
PromotedToName(b, k) ==
    /\ toLowerCaseLabel(k) \in LowerNamesOf(b.item)
    /\ toLowerCaseLabel(k) \notin
          {toLowerCaseLabel(n) :
              n \in SeqToSet(localeNamesOf(localeData, b.category, b.item.emoji))}

\* C24 as stated: the similarity keywords of a symbol are exactly those of
\* its keywords that were not promoted to names and whose corpus-wide count
\* c satisfies 1 < c <= 10.
C24_UnpromotedKeywordsInRange ==
    Built =>
        LET usage == Usage
        IN \A b \in BuiltItems :
              b.item.keywords =
                 SelectSeq(collectLocaleKeywords(localeData["en"], b.item.emoji),
                           LAMBDA k :
                              /\ ~PromotedToName(b, k)
                              /\ CorpusCount(usage, toLowerCaseLabel(k)) > 1
                              /\ CorpusCount(usage, toLowerCaseLabel(k)) <= 10)

\* C24 amended: the similarity keywords of a symbol are exactly its English
\* keywords whose corpus-wide count c satisfies 1 < c <= 10, those promoted
\* to names included.
C24_EnglishKeywordsInRange ==
    Built =>
        LET usage == Usage
        IN \A b \in BuiltItems :
              b.item.keywords =
                 SelectSeq(collectLocaleKeywords(localeData["en"], b.item.emoji),
                           LAMBDA k :
                              /\ CorpusCount(usage, toLowerCaseLabel(k)) > 1
                              /\ CorpusCount(usage, toLowerCaseLabel(k)) <= 10)

\* the dog has four English keywords and one of another locale: the one
\* promoted to a name and the one ten symbols use are kept, the one eleven
\* symbols use and the one of the other locale are not
C24_Witness ==
    /\ Built
    /\ \E b \in BuiltItems :
          /\ b.item.emoji = DOG
          /\ PromotedToName(b, <<"pet">>)
          /\ CorpusCount(Usage, <<"pet">>) = 2
          /\ CorpusCount(Usage, <<"gear">>) = 10
          /\ CorpusCount(Usage, <<"stuff">>) = 11
          /\ CorpusCount(Usage, <<"cho">>) = 2
          /\ b.item.keywords = << <<"pet">>, <<"gear">> >>

-----------------------------------------------------------------------------
(* Synonym expansion pass *)

\* the keywords the synonym pass added to the name->symbol map
SynonymPromoted == DOMAIN result.nameToEmoji \ DOMAIN result.nameToEmojiPhase4

\* the items of the categories that are not internal, in database order
VisibleItems ==
    Flatten([c \in DOMAIN result.database |->
                IF isInternalCategory(result.database[c].category) THEN <<>>
                ELSE result.database[c].items])

\* a synonym of the keyword is a name of the item or a word of one of its
\* names of two words or more
SynonymsTouch(item, keyword) ==
    \E s \in mobySearch(keyword) :
        \/ toLowerCaseLabel(s) \in LowerNamesOf(item)
        \/ \E n \in LowerNamesOf(item) :
              Len(n) >= 2 /\ \E i \in DOMAIN n : toLowerCaseLabel(s) = <<n[i]>>

\* the synonym pass can promote the keyword for the item
Promotable(item, keyword) ==
    /\ keyword \in {toLowerCaseLabel(k) :
                      k \in SeqToSet(result.emojiToKeywords[normalizeEmojiKey(item.emoji)])}
    /\ keyword \notin LowerNamesOf(item)
    /\ \E k \in SeqToSet(result.emojiToKeywords[normalizeEmojiKey(item.emoji)]) :
          toLowerCaseLabel(k) = keyword /\ synonymsMatch(item, k)

\* the pass leaves the entries of the map as they were, and gives a keyword
\* it promotes to a symbol whose names its synonyms touch, the first such
\* symbol in database order
PassKeepsEntries ==
    /\ \A name \in DOMAIN result.nameToEmojiPhase4 :
          /\ name \in DOMAIN result.nameToEmoji
          /\ result.nameToEmoji[name] = result.nameToEmojiPhase4[name]
    /\ \A keyword \in SynonymPromoted :
          LET items == VisibleItems
              able == {i \in DOMAIN items : Promotable(items[i], keyword)}
          IN /\ able # {}
             /\ \A i \in able :
                   /\ SynonymsTouch(items[i], keyword)
                   /\ (\A j \in able : i <= j) =>
                         result.nameToEmoji[keyword] = items[i].emoji

-----------------------------------------------------------------------------
(* Empty name lists *)

\* the symbol entries of a database, of every category
EntriesOf(database) ==
    Flatten([c \in DOMAIN database |-> database[c].items])

\* C26: a database is written only if every symbol entry in it, of every
\* category including the internal ones, has at least one name; a build that
\* leaves a symbol without a name fails and writes nothing.
C26_NoEmptyNamesPublished ==
    outputFile # NoContent =>
        \A item \in SeqToSet(EntriesOf(outputFile.EMOJI_DATABASE)) :
            item.names # <<>>

-----------------------------------------------------------------------------
(* Rounds on the client *)

CorrectIn(its) == {i \in DOMAIN its : its[i].status = "correct"}

\* what a click on id may do to the items of a round: an item keeps its
\* status or goes from normal to wrong or correct; nothing changes when the
\* clicked item is wrong or when an item is correct already
ClickAllowed(before, after, id) ==
    /\ DOMAIN after = DOMAIN before
    /\ \A i \in DOMAIN before :
          /\ after[i].id = before[i].id
          /\ after[i].value = before[i].value
          /\ after[i].isCorrect = before[i].isCorrect
          /\ \/ after[i].status = before[i].status
             \/ /\ before[i].status = "normal"
                /\ after[i].status \in {"wrong", "correct"}
    /\ (\E i \in DOMAIN before :
           before[i].id = id /\ before[i].status = "wrong") => after = before
    /\ CorrectIn(before) # {} => after = before

\* a click of any of the three components is allowed
ClicksAllowed ==
    /\ \A id \in ItemIds :
          /\ GameClient_handleItemClick(id) =>
                ClickAllowed(gameClient.items, gameClient'.items, id)
          /\ Home_handleItemClick(id) =>
                ClickAllowed(home.items, home'.items, id)
    /\ \A id \in RoundItemIds :
          TopicSession_handleItemClick(id) =>
             ClickAllowed(topicPlay.items, topicPlay'.items, id)

\* the items of the mounted component
ShownItems ==
    IF gameClient # NoContent THEN gameClient.items
    ELSE IF home # NoContent THEN home.items
    ELSE IF topicPlay # NoContent THEN topicPlay.items
    ELSE <<>>

C28_SessionProgress ==
    topicPlay # NoContent =>
        LET totalRounds == Len(topicPlay.rounds)
            round == topicPlay.rounds[topicPlay.currentRound + 1]
        IN /\ 0 <= topicPlay.currentRound
           /\ topicPlay.currentRound < totalRounds
           /\ DOMAIN topicPlay.items = DOMAIN round.items
           /\ \A i \in DOMAIN round.items :
                 /\ topicPlay.items[i].id = round.items[i].id
                 /\ topicPlay.items[i].value = round.items[i].value
                 /\ topicPlay.items[i].isCorrect = round.items[i].isCorrect
           /\ topicPlay.correctCount <= topicPlay.currentRound + 1
           /\ CorrectIn(topicPlay.items) = {} =>
                 topicPlay.correctCount <= topicPlay.currentRound
           /\ topicPlay.screen = "summary" =>
                 /\ topicPlay.currentRound = totalRounds - 1
                 /\ \E i \in CorrectIn(topicPlay.items) :
                       topicPlay.items[i].isCorrect
                 /\ topicPlay.correctCount = totalRounds

\* the summary of a session of two rounds
C28_Witness ==
    /\ topicPlay # NoContent
    /\ topicPlay.screen = "summary"
    /\ Len(topicPlay.rounds) = 2
    /\ topicPlay.correctCount = 2

\* C29: when Home's screen is game or success, gameData is not null and
\* items holds the three options of that game; whatever the interleaving of
\* start, item click, Back, Play Again and the delayed transition, success
\* is shown only for the game on screen, whose target was clicked.
C29_SuccessOnlyForCurrentGame ==
    (home # NoContent /\ home.screen \in {"game", "success"}) =>
        /\ home.gameData # NoContent
        /\ Len(home.items) = 3
        /\ \E i \in DOMAIN home.items :
              /\ home.items[i].id = "target"
              /\ home.items[i].value = home.gameData.targetValue
              /\ home.screen = "success" => home.items[i].status = "correct"

====
